---- MODULE Spec2Model ----
(***************************************************************************)
(* The entity resolution engine of CK3_history_extractor.py: the           *)
(* constructors gChar, gTitle, gFaith, gCulture, gDynn, lChar, gLineage,   *)
(* the helper findLinkedChars and the __main__ driver, as a stack machine  *)
(* over the global registries knownChars, knownTitles, knownCuls,          *)
(* knownFaiths and knownDyns.  A Python call is a pushed frame, a return   *)
(* pops it and leaves the value in `ret`, a raised exception unwinds the   *)
(* stack to the innermost enclosing try.                                   *)
(***************************************************************************)
EXTENDS Integers, Sequences, FiniteSets, TLC

\* ------------------------------------------------------------- bounds
\* largest depth budget (the `limit` argument of gLineage) a run starts with
MaxLimit == 3
\* the interpreter's recursion limit, counted in frames of the model's stack
RecursionLimit == 14
\* longest string handed to gameStringToRead on its own
MaxStrLen == 4
\* longest title key, after its rank and underscore, handed to getTitleName
MaxKeyBody == 3
\* most traits in the lookup file
MaxTraits == 3
\* most tokens in a list field
MaxTokens == 3
\* most calls of one function on the same argument
MaxCalls == 2
MaxBlocks == 3

\* ------------------------------------------------------------- values
\* What an attribute of an entity holds: a reference to an entity object
\* (k = "obj", h its handle), a display name (k = "name", id the entity the
\* name was read from) or a literal (k = "str").
Obj(id, h) == [k |-> "obj", id |-> id, h |-> h]
Name(id)   == [k |-> "name", id |-> id, h |-> 0]
Str(s)     == [k |-> "str", id |-> s, h |-> 0]
NoValue    == [k |-> "none", id |-> "", h |-> 0]
\* a Python list of such values
List(items) == [k |-> "list", id |-> "", h |-> 0, items |-> items]

IsObj(v) == v.k = "obj"

Has(f, x) == x \in DOMAIN f

Reverse(s) == [i \in 1..Len(s) |-> s[Len(s) + 1 - i]]

SeqToSet(s) == {s[i] : i \in 1..Len(s)}

\* ---------------------------------------------------------- documents
\* A save file, reduced to what the constructors read from it.  A block
\* that is absent from the file is an id outside the DOMAIN of its array.
BlankChar ==
  [birth |-> TRUE, skill |-> TRUE, traits |-> <<>>, recessive |-> <<>>,
   culture |-> "", faith |-> "",
   spouse |-> <<>>, former |-> <<>>, child |-> <<>>, house |-> "",
   dead |-> FALSE, liege |-> "", government |-> FALSE, hasDomain |-> TRUE,
   domain |-> <<>>, kills |-> <<>>, contracts |-> <<>>, mem |-> TRUE,
   memories |-> <<>>]

\* a title key `<rank>_x`, as the sequence of its characters
Key(rank) == <<rank, "_", "x">>

BlankTitle ==
  [key |-> Key("c"), article |-> FALSE, history |-> <<>>, dejure |-> "",
   defacto |-> "", vassals |-> <<>>]

\* one dated entry of a title's history block: `date=holder` (plain), or
\* `date={ type=... holder=... }` (typed; type destroyed has no holder)
Hist(date, holder, type) == [date |-> date, holder |-> holder, type |-> type]

BlankDoc ==
  [chars |-> <<>>, titles |-> <<>>, culs |-> <<>>, faiths |-> <<>>,
   houses |-> <<>>, dyns |-> <<>>, contracts |-> <<>>, mems |-> <<>>,
   lineages |-> <<>>]

\* one lineage whose legacy names the same character twice
DocSame ==
  [BlankDoc EXCEPT
     !.chars = ("c1" :> [BlankChar EXCEPT !.child = <<"c2">>])
            @@ ("c2" :> BlankChar),
     !.lineages = << <<"c1", "c1">> >>]

\* a ruler followed by the heir, who is also listed as the ruler's child;
\* both belong to houses of the same dynasty
DocHeir ==
  [BlankDoc EXCEPT
     !.chars = ("c1" :> [BlankChar EXCEPT !.child = <<"c2">>, !.house = "h1",
                                          !.spouse = <<"c3">>, !.dead = TRUE])
            @@ ("c2" :> [BlankChar EXCEPT !.house = "h2", !.former = <<"c3">>])
            @@ ("c3" :> BlankChar),
     !.houses = ("h1" :> [dynasty |-> "d1", leaders |-> <<"c1", "c4">>])
             @@ ("h2" :> [dynasty |-> "d1", leaders |-> <<"c2">>]),
     !.dyns = ("d1" :> [leaders |-> <<"c1">>]),
     !.lineages = << <<"c1", "c2">> >>]

\* two dead characters, each the liege of the other; the first holds a
\* duchy whose de jure liege is also listed among its de jure vassals
DocLiege ==
  [BlankDoc EXCEPT
     !.chars = ("c1" :> [BlankChar EXCEPT !.dead = TRUE, !.liege = "c2",
                                          !.government = TRUE,
                                          !.domain = <<"t1">>])
            @@ ("c2" :> [BlankChar EXCEPT !.dead = TRUE, !.liege = "c1"])
            @@ ("c3" :> [BlankChar EXCEPT !.dead = TRUE, !.liege = "c3"]),
     !.titles = ("t1" :> [BlankTitle EXCEPT
                            !.key = Key("d"), !.dejure = "t2",
                            !.vassals = <<"t2", "t3">>,
                            !.history = <<Hist("y1", "c1", "plain"),
                                          Hist("y2", "c2", "typed")>>])
             @@ ("t2" :> [BlankTitle EXCEPT !.key = Key("k"),
                                            !.vassals = <<"t1">>])
             @@ ("t3" :> [BlankTitle EXCEPT !.dejure = "t1"]),
     !.lineages = << <<"c1">>, <<"c3">> >>]

\* an empire with the whole de jure tree under it; the kingdom's de jure
\* liege (the empire) is also listed among the kingdom's de jure vassals
DocTitles ==
  [BlankDoc EXCEPT
     !.chars = ("c1" :> [BlankChar EXCEPT !.government = TRUE, !.faith = "f1",
                                          !.domain = <<"t2", "t1">>])
            @@ ("c2" :> BlankChar),
     !.titles = ("t1" :> [BlankTitle EXCEPT !.key = Key("e"),
                                            !.vassals = <<"t2">>])
             @@ ("t2" :> [BlankTitle EXCEPT !.key = Key("k"), !.dejure = "t1",
                                            !.defacto = "t1",
                                            !.history = <<Hist("y1", "c2", "plain"),
                                                           Hist("y2", "", "destroyed")>>,
                                            !.vassals = <<"t1", "t3">>])
             @@ ("t3" :> [BlankTitle EXCEPT !.key = Key("d"), !.dejure = "t2",
                                            !.vassals = <<"t4">>])
             @@ ("t4" :> [BlankTitle EXCEPT !.key = Key("c"), !.dejure = "t3",
                                            !.defacto = "t3",
                                            !.vassals = <<"t5">>])
             @@ ("t5" :> [BlankTitle EXCEPT !.key = Key("b"), !.dejure = "t4"]),
     !.faiths = ("f1" :> [head |-> "t3"]),
     !.lineages = << <<"c1">> >>]

\* two cultures that list each other as parent, and one that lists itself
DocCul ==
  [BlankDoc EXCEPT
     !.chars = ("c1" :> [BlankChar EXCEPT !.culture = "k1",
                                          !.child = <<"c2">>])
            @@ ("c2" :> [BlankChar EXCEPT !.culture = "k3"])
            @@ ("c3" :> [BlankChar EXCEPT !.culture = "k4"]),
     !.culs = ("k1" :> [parents |-> <<"k2">>])
           @@ ("k2" :> [parents |-> <<"k1">>])
           @@ ("k3" :> [parents |-> <<"k3">>])
           @@ ("k4" :> [parents |-> <<"k5">>])
           @@ ("k5" :> [parents |-> <<>>]),
     !.lineages = << <<"c1">>, <<"c3", "c3">> >>]

\* a family in which c4 is both a child of the root and a great-grandchild
DocFan ==
  [BlankDoc EXCEPT
     !.chars = ("c1" :> [BlankChar EXCEPT !.child = <<"c2", "c4">>])
            @@ ("c2" :> [BlankChar EXCEPT !.child = <<"c3">>])
            @@ ("c3" :> [BlankChar EXCEPT !.child = <<"c4">>])
            @@ ("c4" :> [BlankChar EXCEPT !.child = <<"c5">>])
            @@ ("c5" :> BlankChar),
     !.lineages = << <<"c1">> >>]

\* a living ruler with kills, vassal contracts, a spouse and memories
DocAlive ==
  [BlankDoc EXCEPT
     !.chars = ("c1" :> [BlankChar EXCEPT !.government = TRUE,
                                          !.traits = <<0, MaxTraits>>,
                                          !.recessive = <<1, MaxTraits + 1>>,
                                          !.kills = <<"c2", "c3">>,
                                          !.contracts = <<"v1", "v9", "v2">>,
                                          !.spouse = <<"c5">>,
                                          !.domain = <<"t1", "t4">>,
                                          !.memories = <<"m1">>])
            @@ ("c2" :> [BlankChar EXCEPT !.kills = <<"c5">>])
            @@ ("c3" :> [BlankChar EXCEPT !.government = TRUE,
                                          !.contracts = <<"v3">>])
            @@ ("c4" :> BlankChar)
            @@ ("c5" :> [BlankChar EXCEPT !.spouse = <<"c1">>])
            @@ ("c6" :> BlankChar),
     !.titles = ("t1" :> [BlankTitle EXCEPT !.key = Key("d"), !.dejure = "t2",
                                            !.vassals = <<"t3">>])
             @@ ("t2" :> [BlankTitle EXCEPT !.key = Key("k"),
                                            !.vassals = <<"t1", "t4">>])
             @@ ("t3" :> [BlankTitle EXCEPT !.dejure = "t1"])
             @@ ("t4" :> [BlankTitle EXCEPT !.key = <<"d", "_", "a", "b", "_", "x">>,
                                            !.dejure = "t2",
                                            !.vassals = <<"t3">>]),
     !.contracts = ("v1" :> "c3") @@ ("v2" :> "c4") @@ ("v3" :> "c6"),
     !.mems = ("m1" :> [participants |-> <<"c2", "c6">>]),
     !.lineages = << <<"c1">> >>]

\* blocks and required fields that are absent
DocBroken ==
  [BlankDoc EXCEPT
     !.chars = ("c1" :> [BlankChar EXCEPT !.child = <<"c7", "c3", "c4">>,
                                          !.government = TRUE,
                                          !.contracts = <<"v1", "v2">>,
                                          !.mem = FALSE])
            @@ ("c2" :> [BlankChar EXCEPT !.kills = <<"c8", "c4">>])
            @@ ("c3" :> [BlankChar EXCEPT !.birth = FALSE])
            @@ ("c4" :> [BlankChar EXCEPT !.skill = FALSE])
            @@ ("c5" :> [BlankChar EXCEPT !.government = TRUE,
                                          !.domain = <<"t1">>])
            @@ ("c6" :> [BlankChar EXCEPT !.faith = "f1"])
            @@ ("c10" :> [BlankChar EXCEPT !.government = TRUE,
                                           !.hasDomain = FALSE])
            @@ ("c11" :> [BlankChar EXCEPT !.memories = <<"m1">>])
            @@ ("c12" :> [BlankChar EXCEPT !.dead = TRUE, !.government = TRUE,
                                           !.hasDomain = FALSE]),
     !.titles = ("t1" :> [BlankTitle EXCEPT !.key = Key("d"),
                                            !.vassals = <<"t2", "t9">>])
             @@ ("t2" :> BlankTitle),
     !.faiths = ("f1" :> [head |-> "t8"]),
     !.contracts = ("v1" :> "c8") @@ ("v2" :> "c5"),
     !.mems = ("m1" :> [participants |-> <<"c8", "c6">>]),
     !.lineages = << <<"c1">>, <<"c2">>, <<"c9", "c1">>, <<"c6">>, <<"c10">>,
                     <<"c11">>, <<"c12">> >>]

\* two children whose domains are a county and its de jure duchy; the duchy
\* changed hands twice on the same date
DocShare ==
  [BlankDoc EXCEPT
     !.chars = ("c1" :> [BlankChar EXCEPT !.child = <<"c2", "c3">>])
            @@ ("c2" :> [BlankChar EXCEPT !.government = TRUE,
                                          !.domain = <<"t1">>])
            @@ ("c3" :> [BlankChar EXCEPT !.government = TRUE,
                                          !.domain = <<"t2">>]),
     !.titles = ("t1" :> [BlankTitle EXCEPT !.dejure = "t2", !.defacto = "t4"])
             @@ ("t2" :> [BlankTitle EXCEPT !.key = Key("d"),
                                            !.history = <<Hist("y1", "c1", "plain"),
                                                           Hist("y2", "c2", "typed"),
                                                           Hist("y2", "c3", "plain")>>,
                                            !.vassals = <<"t1", "t3">>])
             @@ ("t3" :> BlankTitle)
             @@ ("t4" :> [BlankTitle EXCEPT !.key = Key("d"), !.article = TRUE,
                                            !.dejure = "t1"]),
     !.lineages = << <<"c1">> >>]

\* a parent and two children of one house; the younger child is among the
\* house's historical leaders, the elder succeeds the parent
DocHouse ==
  [BlankDoc EXCEPT
     !.chars = ("c1" :> [BlankChar EXCEPT !.child = <<"c2", "c3">>,
                                          !.house = "h1"])
            @@ ("c2" :> [BlankChar EXCEPT !.house = "h1"])
            @@ ("c3" :> [BlankChar EXCEPT !.house = "h1"]),
     !.houses = ("h1" :> [dynasty |-> "d1", leaders |-> <<"c1", "c3">>]),
     !.dyns = ("d1" :> [leaders |-> <<>>]),
     !.lineages = << <<"c1", "c2">> >>]

Docs == {DocShare, DocSame, DocHeir, DocLiege, DocTitles, DocCul, DocFan, DocAlive,
         DocBroken, DocHouse}

\* -------------------------------------------------------------- state
VARIABLES
  doc,          \* allData: the save file being processed
  limit0,       \* the depth budget handed to gLineage
  run,          \* 1: first pass over the document, 2: the comparison pass
  prev,         \* what the first pass produced, kept for the comparison
  stack,        \* the Python call stack, innermost frame last
  exc,          \* the exception being propagated, "none" when there is none
  ret,          \* the value the last finished call returned
  knownChars, knownTitles, knownCuls, knownFaiths, knownDyns,
                \* the global registries: id -> handle of the entity object
  charObjs, titleObjs, culObjs, faithObjs, dynObjs,
                \* the entity objects ever constructed, one heap per class;
                \* an object's handle is its index
  pages,        \* the pages rendered so far
  lineages,     \* the gLineage objects the driver obtained
  raised,       \* number of exceptions raised so far in this pass
  pcall,        \* a helper function called on its own, with its arguments
  pres          \* what the calls of pcall made so far returned

\* what no constructor assigns
input == <<doc, limit0, run, prev, pcall, pres>>
regs  == <<knownChars, knownTitles, knownCuls, knownFaiths, knownDyns>>
heaps == <<charObjs, titleObjs, culObjs, faithObjs, dynObjs>>
out   == <<pages, lineages>>
vars  == <<input, stack, exc, ret, regs, heaps, out, raised>>

\* ------------------------------------------------------------- frames
Frame(fn, id) ==
  [fn |-> fn, pc |-> "start", id |-> id, h |-> 0, limit |-> 0, i |-> 1,
   list |-> <<>>, acc |-> <<>>, lookUp |-> TRUE, lookDown |-> TRUE,
   house |-> TRUE]

Top == stack[Len(stack)]

At(fn, pc) ==
  /\ exc = "none"
  /\ stack # <<>>
  /\ Top.fn = fn
  /\ Top.pc = pc

\* the running frame goes on as f
Goto(f) ==
  /\ stack' = [stack EXCEPT ![Len(stack)] = f]
  /\ UNCHANGED <<exc, raised>>

\* the running frame calls `callee` and will go on as `cont` when the call
\* returns; a call that would exceed the recursion limit raises instead
Call(cont, callee) ==
  IF Len(stack) >= RecursionLimit
    THEN /\ stack' = [stack EXCEPT ![Len(stack)] = cont]
         /\ exc' = "RecursionError"
         /\ raised' = raised + 1
    ELSE /\ stack' = Append([stack EXCEPT ![Len(stack)] = cont], callee)
         /\ UNCHANGED <<exc, raised>>

\* the running frame returns v to its caller
Return(v) ==
  /\ stack' = SubSeq(stack, 1, Len(stack) - 1)
  /\ ret' = v
  /\ UNCHANGED <<exc, raised>>

\* the running frame raises e, which no try of its own encloses
Raise(e) ==
  /\ stack' = SubSeq(stack, 1, Len(stack) - 1)
  /\ exc' = e
  /\ raised' = raised + 1

\* ------------------------------------------------------------ objects
\* `limit` is not an attribute of the Python object: it records the budget
\* argument the constructor ran with
NewChar(id, limit) ==
  [charid |-> id, limit |-> limit, done |-> FALSE, attrs |-> {}, culture |-> NoValue,
   faith |-> NoValue, house |-> NoValue, spouses |-> <<>>, former |-> <<>>,
   children |-> <<>>, kills |-> <<>>, vassals |-> <<>>, titles |-> <<>>,
   liege |-> "", government |-> "", dead |-> FALSE, memories |-> <<>>,
   traits |-> <<>>, recessive |-> <<>>]

NewTitle(id, key) ==
  [titleid |-> id, key |-> key, done |-> FALSE, attrs |-> {},
   history |-> <<>>, de_jure |-> NoValue, de_facto |-> NoValue,
   vassals |-> <<>>]

NewCulture(id) == [culid |-> id, done |-> FALSE, parents |-> <<>>]

NewFaith(id) == [faid |-> id, done |-> FALSE, attrs |-> {}, head |-> NoValue]

NewDynn(id, house) ==
  [dynid |-> id, house |-> house, done |-> FALSE, parent |-> NoValue,
   leaders |-> <<>>]

\* ------------------------------------------------------ pure helpers
\* `sub in key` for a two-character sub
InKey(sub, key) == \E i \in 1..(Len(key) - 1) : SubSeq(key, i, i + 1) = sub

IsBaronyKey_never(key) == FALSE

\* gTitle's test `'b_' in self.key`
IsBaronyKey(key) == InKey(<<"b", "_">>, key)

\* getChrNameOrObj: the registered character object, else the first name
\* read from the character's block; "fail" when the block is absent
CanNameChar(id) == Has(knownChars, id) \/ Has(doc.chars, id)

getChrNameOrObj(id) ==
  IF Has(knownChars, id) THEN Obj(id, knownChars[id]) ELSE Name(id)

\* ------------------------------------------------------------ strings
\* A Python str is the sequence of its characters.
Lowers == <<"a", "b", "c", "d", "e", "f", "g", "h", "i", "j", "k", "l", "m",
            "n", "o", "p", "q", "r", "s", "t", "u", "v", "w", "x", "y", "z">>
Uppers == <<"A", "B", "C", "D", "E", "F", "G", "H", "I", "J", "K", "L", "M",
            "N", "O", "P", "Q", "R", "S", "T", "U", "V", "W", "X", "Y", "Z">>

ToLower(c) ==
  IF \E i \in 1..Len(Uppers) : Uppers[i] = c
    THEN Lowers[CHOOSE i \in 1..Len(Uppers) : Uppers[i] = c]
    ELSE c

ToUpper(c) ==
  IF \E i \in 1..Len(Lowers) : Lowers[i] = c
    THEN Uppers[CHOOSE i \in 1..Len(Lowers) : Lowers[i] = c]
    ELSE c

\* str.lower()
Lower(s) == [i \in 1..Len(s) |-> ToLower(s[i])]

\* str.capitalize(): the first character upper case, the rest lower case
Capitalize(s) == [i \in 1..Len(s) |-> IF i = 1 THEN ToUpper(s[i]) ELSE ToLower(s[i])]

\* str.replace(pat, new): every occurrence of pat, leftmost first, without
\* overlap
RECURSIVE Replace(_, _, _)
Replace(s, pat, new) ==
  IF Len(s) < Len(pat) THEN s
  ELSE IF SubSeq(s, 1, Len(pat)) = pat
    THEN new \o Replace(SubSeq(s, Len(pat) + 1, Len(s)), pat, new)
    ELSE <<s[1]>> \o Replace(Tail(s), pat, new)

\* the substrings gameStringToRead deletes, in the order it deletes them
Deleted ==
  << <<"d", "y", "n", "n", "_">>,
     <<"_", "l", "i", "f", "e", "s", "t", "y", "l", "e">>,
     <<"_", "p", "e", "r", "k">>,
     <<"n", "i", "c", "k", "_">>,
     <<"d", "e", "a", "t", "h", "_">>,
     <<"e", "t", "h", "o", "s", "_">>,
     <<"h", "e", "r", "i", "t", "a", "g", "e", "_">>,
     <<"m", "a", "r", "t", "i", "a", "l", "_", "c", "u", "s", "t", "o", "m", "_">>,
     <<"t", "r", "a", "d", "i", "t", "i", "o", "n", "_">>,
     <<"f", "p", "2", "_">>,
     <<"f", "p", "1", "_">>,
     <<"l", "a", "n", "g", "u", "a", "g", "e", "_">>,
     <<"_", "1">>,
     <<"_", "2">>,
     <<"d", "o", "c", "t", "r", "i", "n", "e", "_">>,
     <<"s", "p", "e", "c", "i", "a", "l", "_">>,
     <<"i", "s", "_">> >>

\* string.replace(Deleted[1], '').replace(Deleted[2], '') ... up to Deleted[n]
RECURSIVE DeleteAll(_, _)
DeleteAll(s, n) ==
  IF n = 0 THEN s
  ELSE CHOOSE r \in {Replace(x, Deleted[n], <<>>) : x \in {DeleteAll(s, n - 1)}} :
         TRUE

\* gameStringToRead with a memo keyed on nothing but the registry: what the
\* function would be if it consulted knownChars
gameStringToRead_registry(string) ==
  IF knownChars = <<>> THEN Capitalize(string) ELSE <<>>

\* gameStringToRead: the deletions, '_' to ' ', lower(), capitalize()
gameStringToRead(string) ==
  CHOOSE r \in {Capitalize(Lower(Replace(x, <<"_">>, <<" ">>))) :
                  x \in {DeleteAll(string, Len(Deleted))}} : TRUE

\* ------------------------------------------------- the trait lookup
\* the j-th trait name CK3_lookup_gen.py finds in 00_traits.txt
TraitName(j) ==
  IF j % 2 = 1 THEN <<"b", "r", "a", "v", "e">>
  ELSE <<"i", "s", "_", "s", "h", "y">>

\* the line the generator writes last, after the traits
GeneratedNote == <<"T", "h", "i", "s", " ", "f", "i", "l", "e">>

\* trait_indexes.lookup as linecache holds it: one line per trait, then the
\* note, every line ending in a newline
LookupFile(n) ==
  [j \in 1..(n + 1) |->
     (IF j <= n THEN TraitName(j) ELSE GeneratedNote) \o <<"\n">>]

\* linecache.getline: the line, or '' when lineno is out of range
getline(lines, lineno) ==
  IF 1 <= lineno /\ lineno <= Len(lines) THEN lines[lineno] ELSE <<>>

\* getTrait(traitId) over a lookup file of n traits
getTrait(traitId, n) == gameStringToRead(getline(LookupFile(n), traitId + 1))

\* ---------------------------------------------------------- title names
\* getTitleName for a title block with this key, article ('' when the block
\* has none) and name: a str as the sequence of its pieces
getTitleName(key, article, baseName) ==
  IF article # <<>> THEN article \o baseName
  ELSE IF InKey(<<"b", "_">>, key) THEN <<"Barony of ">> \o baseName
  ELSE IF InKey(<<"c", "_">>, key) THEN <<"County of ">> \o baseName
  ELSE IF InKey(<<"d", "_">>, key) THEN <<"Duchy of ">> \o baseName
  ELSE IF InKey(<<"k", "_">>, key) THEN <<"Kingdom of ">> \o baseName
  ELSE IF InKey(<<"e", "_">>, key) THEN <<"Empire of ">> \o baseName
  ELSE baseName

\* ---------------------------------------------------------- list fields
\* the index of the first c in s at or after position from, 0 when none
IndexOf(s, c, from) ==
  IF \E i \in from..Len(s) : s[i] = c
    THEN CHOOSE i \in from..Len(s) :
           s[i] = c /\ \A j \in from..(i - 1) : s[j] # c
    ELSE 0

\* re.findall(r'field={(.*?)}', ...): the text between the first '{' and the
\* first '}' after it, as a list of one capture; [] when there is none
findall_braces(text) ==
  LET a == IndexOf(text, "{", 1)
      b == IF a = 0 THEN 0 ELSE IndexOf(text, "}", a + 1)
  IN IF b = 0 THEN <<>> ELSE <<SubSeq(text, a + 1, b - 1)>>

\* re.findall(r'field={ (.*?) }', ...): the text between the first '{ ' and
\* the first ' }' after it
findall_spaced(text) ==
  LET open(a) == a < Len(text) /\ text[a] = "{" /\ text[a + 1] = " "
      close(a, b) == b < Len(text) /\ text[b] = " " /\ text[b + 1] = "}"
      match(a) == open(a) /\ \E b \in (a + 2)..Len(text) : close(a, b)
  IN IF \E a \in 1..Len(text) : match(a)
       THEN LET a == CHOOSE x \in 1..Len(text) :
                       match(x) /\ \A y \in 1..(x - 1) : ~match(y)
                b == CHOOSE x \in (a + 2)..Len(text) :
                       close(a, x) /\ \A y \in (a + 2)..(x - 1) : ~close(a, y)
            IN <<SubSeq(text, a + 2, b - 1)>>
       ELSE <<>>

\* str.split(' ')
RECURSIVE split(_)
split(s) ==
  LET i == IndexOf(s, " ", 1)
  IN IF i = 0 THEN <<s>>
     ELSE <<SubSeq(s, 1, i - 1)>> \o split(SubSeq(s, i + 1, Len(s)))

\* list[1:-1]
Inner(l) == SubSeq(l, 2, Len(l) - 1)

\* the fields read with `{ (.*?) }` and split(' '); the one read with
\* `{(.*?)}` and split(' '); the others are read with `{(.*?)}` and
\* split(' ')[1:-1]
ListFields ==
  {"traits", "recessive", "skills", "former", "children", "domain", "kills",
   "contracts", "memories", "parents", "traditions", "vassals"}

\* the list the constructors extract from the text of a list field; "raise"
\* when findall finds nothing and the code indexes [0] unguarded
ListField(field, text) ==
  LET found == IF field = "vassals" THEN findall_spaced(text)
               ELSE findall_braces(text)
  IN IF found = <<>>
       THEN [ok |-> FALSE, v |-> <<>>]
       ELSE [ok |-> TRUE,
             v |-> IF field \in {"vassals", "skills"} THEN split(found[1])
                   ELSE Inner(split(found[1]))]

\* ------------------------------------------------------- block locators
\* The document as the sequence of its top-level blocks `<id>={ ... }`, each
\* reduced to its id and kind.  The fields a block of each kind is written
\* with, the first field first:
BlockFields(kind) ==
  IF kind = "char" THEN <<"first_name", "dynasty_house">>
  ELSE IF kind = "house" THEN <<"name", "dynasty">>
  ELSE IF kind = "dynasty" THEN <<"key", "prestige">>
  ELSE <<"key", "name">>

\* `'<field>=' in block`
InBlock(field, b) == field \in SeqToSet(BlockFields(b.kind))

\* re.findall: the indices, in document order, of the blocks `<id>={` whose
\* first field is `first` ('' when the pattern names no field)
Hits(blocks, id, first) ==
  LET Hit(i) == /\ blocks[i].id = id
                /\ first = "" \/ BlockFields(blocks[i].kind)[1] = first
  IN SelectSeq([i \in 1..Len(blocks) |-> i], Hit)

\* the located block as its index in the document, or IndexError
Located(n) == [ok |-> n # 0, v |-> n]

\* findCharData: `\n<id>={\n\tfirst_name=.+?\n}`, first hit
findCharData(charid, blocks) ==
  LET hits == Hits(blocks, charid, "first_name")
  IN Located(IF hits = <<>> THEN 0 ELSE hits[1])

\* findTitleData: `\n<id>={.+?\n}`, first hit
findTitleData(titleid, blocks) ==
  LET hits == Hits(blocks, titleid, "")
  IN Located(IF hits = <<>> THEN 0 ELSE hits[1])

\* the while loop of findHouseData and findDynastyData over the hits of
\* `\n<id>={\n\t.+?\n}`: the first hit that contains `<anchor>=`
RECURSIVE findAnchored(_, _, _, _)
findAnchored(id, anchor, blocks, i) ==
  LET hits == Hits(blocks, id, "")
  IN IF i > Len(hits) THEN Located(0)
     ELSE IF InBlock(anchor, blocks[hits[i]]) THEN Located(hits[i])
     ELSE findAnchored(id, anchor, blocks, i + 1)

findHouseData(dynid, blocks) == findAnchored(dynid, "dynasty", blocks, 1)

findDynastyData(dynid, blocks) == findAnchored(dynid, "prestige", blocks, 1)

\* the locator gChar, gDynn(house), gDynn and gTitle use for their kind
locate(kind, id, blocks) ==
  IF kind = "char" THEN findCharData(id, blocks)
  ELSE IF kind = "house" THEN findHouseData(id, blocks)
  ELSE IF kind = "dynasty" THEN findDynastyData(id, blocks)
  ELSE findTitleData(id, blocks)

\* ------------------------------------------------------------- driver
\* __main__: for each played_character block, try gLineage(...)
main_loop ==
  /\ At("main", "start")
  /\ IF Top.i <= Len(doc.lineages)
       THEN Call([Top EXCEPT !.pc = "ret"],
                 [Frame("gLineage", "") EXCEPT !.i = 1, !.h = Top.i,
                                               !.limit = Top.limit,
                                               !.list = doc.lineages[Top.i]])
       ELSE Goto([Top EXCEPT !.pc = "done"])
  /\ UNCHANGED <<input, ret, regs, heaps, out>>

\* the lineage was built: on to the next block
main_ret ==
  /\ At("main", "ret")
  /\ Goto([Top EXCEPT !.pc = "start", !.i = Top.i + 1])
  /\ UNCHANGED <<input, ret, regs, heaps, out>>

\* a driver that gives up at the first lineage that fails
main_except_abort ==
  /\ exc # "none"
  /\ Top.fn = "main"
  /\ stack' = [stack EXCEPT ![Len(stack)] = [Top EXCEPT !.pc = "done"]]
  /\ exc' = "none"
  /\ UNCHANGED <<input, ret, regs, heaps, out, raised>>

\* `except Exception: print(traceback.format_exc())`, then the next block
main_except ==
  /\ exc # "none"
  /\ Top.fn = "main"
  /\ stack' = [stack EXCEPT ![Len(stack)] =
                 [Top EXCEPT !.pc = "start", !.i = Top.i + 1]]
  /\ exc' = "none"
  /\ UNCHANGED <<input, ret, regs, heaps, out, raised>>

\* gLineage.__init__: one lChar per entry of the legacy block, then home.html
gLineage_loop ==
  /\ At("gLineage", "start")
  /\ IF Top.i <= Len(Top.list)
       THEN /\ Call([Top EXCEPT !.pc = "ret"],
                    [Frame("lChar", Top.list[Top.i]) EXCEPT
                       !.limit = Top.limit])
            /\ UNCHANGED <<ret, out>>
       ELSE IF Len(Top.list) = 0
         THEN \* sum(sTs)/len(sTs) with no entry
              /\ Raise("ZeroDivisionError")
              /\ UNCHANGED <<ret, out>>
         ELSE /\ Return(Str("lineage"))
              /\ lineages' = Append(lineages, Top.acc)
              /\ pages' = pages \union {[kind |-> "home", id |-> "", h |-> Top.h]}
  /\ UNCHANGED <<input, regs, heaps>>

gLineage_ret ==
  /\ At("gLineage", "ret")
  /\ Goto([Top EXCEPT !.pc = "start", !.i = Top.i + 1,
                      !.acc = Append(Top.acc, ret)])
  /\ UNCHANGED <<input, ret, regs, heaps, out>>

\* lChar.__init__: charVar = gChar(self.charid, ...), whatever knownChars holds
lChar_start ==
  /\ At("lChar", "start")
  /\ Call([Top EXCEPT !.pc = "ret"],
          [Frame("gChar", Top.id) EXCEPT !.limit = Top.limit])
  /\ UNCHANGED <<input, ret, regs, heaps, out>>

\* name, nick and house are copied from charVar; the entry is returned
lChar_ret ==
  /\ At("lChar", "ret")
  /\ Return(ret)
  /\ UNCHANGED <<input, regs, heaps, out>>

\* --------------------------------------------------- findLinkedChars
\* one element of `for char in charids`
findLinkedChars_loop ==
  /\ At("findLinkedChars", "start")
  /\ LET f == Top
         c == f.list[f.i]
         next(v) == [f EXCEPT !.i = f.i + 1, !.acc = Append(f.acc, v)]
     IN IF f.i > Len(f.list)
          THEN Return(List(f.acc))
          ELSE /\ UNCHANGED ret
               /\ IF ~Has(doc.chars, c)
                    THEN \* findCharData fails: except: pass
                         Goto([f EXCEPT !.i = f.i + 1])
                    ELSE IF f.limit > 0
                      THEN IF Has(knownChars, c)
                             THEN Goto(next(Obj(c, knownChars[c])))
                             ELSE Call([f EXCEPT !.pc = "ret"],
                                       [Frame("gChar", c) EXCEPT
                                          !.limit = f.limit - 1])
                      ELSE Goto(next(Name(c)))
  /\ UNCHANGED <<input, regs, heaps, out>>

\* chars.append(gChar(...))
findLinkedChars_ret ==
  /\ At("findLinkedChars", "ret")
  /\ Goto([Top EXCEPT !.pc = "start", !.i = Top.i + 1,
                      !.acc = Append(Top.acc, ret)])
  /\ UNCHANGED <<input, ret, regs, heaps, out>>

\* the inner `except:` around gChar(...): the first name is appended instead
findLinkedChars_except ==
  /\ exc # "none"
  /\ Top.fn = "findLinkedChars"
  /\ stack' = [stack EXCEPT ![Len(stack)] =
                 [Top EXCEPT !.pc = "start", !.i = Top.i + 1,
                             !.acc = Append(Top.acc, Name(Top.list[Top.i]))]]
  /\ exc' = "none"
  /\ UNCHANGED <<input, ret, regs, heaps, out, raised>>

\* -------------------------------------------------------------- gChar
CharOf(f) == charObjs[f.h]

SetChar(f, o) == charObjs' = [charObjs EXCEPT ![f.h] = o]

\* `knownChars[charid] = self` at the head of gChar.__init__
gChar_register(id, h) == (id :> h) @@ knownChars

\* findCharData, `knownChars[charid] = self`, first name and birth date.
\* When the block is absent the except branch itself raises
\* (e.with_traceback() lacks its argument) and nothing is registered.
gChar_start ==
  /\ At("gChar", "start")
  /\ LET f == Top
         h == Len(charObjs) + 1
     IN IF ~Has(doc.chars, f.id)
          THEN /\ Raise("TypeError")
               /\ UNCHANGED <<regs, heaps>>
          ELSE /\ charObjs' = Append(charObjs, NewChar(f.id, f.limit))
               /\ knownChars' = gChar_register(f.id, h)
               /\ IF doc.chars[f.id].birth
                    THEN Goto([f EXCEPT !.h = h, !.pc = "culture"])
                    ELSE Raise("IndexError")
               /\ UNCHANGED <<knownTitles, knownCuls, knownFaiths, knownDyns,
                              titleObjs, culObjs, faithObjs, dynObjs>>
  /\ UNCHANGED <<input, ret, out>>

\* self.culture: the registered culture, a new gCulture, or the default
gChar_culture ==
  /\ At("gChar", "culture")
  /\ LET f == Top
         c == doc.chars[f.id].culture
         go(v) == /\ SetChar(f, [CharOf(f) EXCEPT !.culture = v])
                  /\ Goto([f EXCEPT !.pc = "faith"])
     IN IF c = "" THEN go(Str("Lost to time..."))
        ELSE IF Has(knownCuls, c) THEN go(Obj(c, knownCuls[c]))
        ELSE /\ Call([f EXCEPT !.pc = "culture_ret"], Frame("gCulture", c))
             /\ UNCHANGED charObjs
  /\ UNCHANGED <<input, ret, regs, titleObjs, culObjs, faithObjs, dynObjs, out>>

gChar_culture_ret ==
  /\ At("gChar", "culture_ret")
  /\ SetChar(Top, [CharOf(Top) EXCEPT !.culture = ret])
  /\ Goto([Top EXCEPT !.pc = "faith"])
  /\ UNCHANGED <<input, ret, regs, titleObjs, culObjs, faithObjs, dynObjs, out>>

\* self.faith: the registered faith, a new gFaith, or the default
gChar_faith ==
  /\ At("gChar", "faith")
  /\ LET f == Top
         c == doc.chars[f.id].faith
         go(v) == /\ SetChar(f, [CharOf(f) EXCEPT !.faith = v])
                  /\ Goto([f EXCEPT !.pc = "traits"])
     IN IF c = "" THEN go(Str("Lost to time..."))
        ELSE IF Has(knownFaiths, c) THEN go(Obj(c, knownFaiths[c]))
        ELSE /\ Call([f EXCEPT !.pc = "faith_ret"], Frame("gFaith", c))
             /\ UNCHANGED charObjs
  /\ UNCHANGED <<input, ret, regs, titleObjs, culObjs, faithObjs, dynObjs, out>>

gChar_faith_ret ==
  /\ At("gChar", "faith_ret")
  /\ SetChar(Top, [CharOf(Top) EXCEPT !.faith = ret])
  /\ Goto([Top EXCEPT !.pc = "traits"])
  /\ UNCHANGED <<input, ret, regs, titleObjs, culObjs, faithObjs, dynObjs, out>>

\* nickname, dna, skills (findSkills[0]), then the traits and the recessive
\* traits: getTrait of each index listed, [] when the list is absent
gChar_traits ==
  /\ At("gChar", "traits")
  /\ LET c == doc.chars[Top.id]
         names(l) == [j \in 1..Len(l) |-> getTrait(l[j], MaxTraits)]
     IN IF c.skill
          THEN /\ SetChar(Top, [CharOf(Top) EXCEPT
                                  !.traits = names(c.traits),
                                  !.recessive = names(c.recessive)])
               /\ Goto([Top EXCEPT !.pc = "family", !.i = 1])
          ELSE /\ Raise("IndexError")
               /\ UNCHANGED charObjs
  /\ UNCHANGED <<input, ret, regs, titleObjs, culObjs, faithObjs, dynObjs, out>>

\* the three lists of family_data, in the order the constructor reads them:
\* the document field and the attribute it fills
FamilyField == <<"spouse", "former", "child">>
FamilyAttr  == <<"spouses", "former", "children">>

\* self.spouses / self.former / self.children = findLinkedChars(..., limit, ...)
gChar_family ==
  /\ At("gChar", "family")
  /\ LET f == Top
     IN IF f.i > Len(FamilyField)
          THEN Goto([f EXCEPT !.pc = "house"])
          ELSE LET list == doc.chars[f.id][FamilyField[f.i]]
               IN IF Len(list) > 0
                    THEN Call([f EXCEPT !.pc = "family_ret"],
                              [Frame("findLinkedChars", f.id) EXCEPT
                                 !.list = list, !.limit = f.limit])
                    ELSE Goto([f EXCEPT !.i = f.i + 1])
  /\ UNCHANGED <<input, ret, regs, heaps, out>>

gChar_family_ret ==
  /\ At("gChar", "family_ret")
  /\ LET f == Top
         a == FamilyAttr[f.i]
     IN /\ SetChar(f, [CharOf(f) EXCEPT ![a] = ret.items,
                                        !.attrs = @ \union {a}])
        /\ Goto([f EXCEPT !.pc = "family", !.i = f.i + 1])
  /\ UNCHANGED <<input, ret, regs, titleObjs, culObjs, faithObjs, dynObjs, out>>

\* self.house: the registered house, a new gDynn, or 'Lowborn'
gChar_house ==
  /\ At("gChar", "house")
  /\ LET f == Top
         c == doc.chars[f.id].house
         go(v) == /\ SetChar(f, [CharOf(f) EXCEPT !.house = v])
                  /\ Goto([f EXCEPT !.pc = "status"])
     IN IF c = "" THEN go(Str("Lowborn"))
        ELSE IF Has(knownDyns, c) THEN go(Obj(c, knownDyns[c]))
        ELSE /\ Call([f EXCEPT !.pc = "house_ret"], Frame("gDynn", c))
             /\ UNCHANGED charObjs
  /\ UNCHANGED <<input, ret, regs, titleObjs, culObjs, faithObjs, dynObjs, out>>

gChar_house_ret ==
  /\ At("gChar", "house_ret")
  /\ SetChar(Top, [CharOf(Top) EXCEPT !.house = ret])
  /\ Goto([Top EXCEPT !.pc = "status"])
  /\ UNCHANGED <<input, ret, regs, titleObjs, culObjs, faithObjs, dynObjs, out>>

\* the liege a dead character's object keeps: the id, never an object
gChar_liege(c, charid) == IF c.liege # "" /\ c.liege # charid THEN c.liege ELSE ""

\* `if 'dead_data' in rawData`: a dead character keeps its liege id and goes
\* on to its government; a living one goes on to its kills
gChar_status ==
  /\ At("gChar", "status")
  /\ LET f == Top
         c == doc.chars[f.id]
         o == CharOf(f)
     IN IF c.dead
          THEN LET o1 == [o EXCEPT !.dead = TRUE,
                                   !.liege = gChar_liege(c, f.id)]
               IN IF c.government /\ ~c.hasDomain
                    THEN \* findDomain[0] on a block without a domain list
                         /\ SetChar(f, [o1 EXCEPT !.government = "government"])
                         /\ Raise("IndexError")
                  ELSE IF c.government
                    THEN /\ SetChar(f, [o1 EXCEPT !.government = "government",
                                                  !.attrs = @ \union {"titles"}])
                         /\ Goto([f EXCEPT !.pc = "domain", !.i = 1])
                    ELSE /\ SetChar(f, [o1 EXCEPT !.government = "Unlanded"])
                         /\ Goto([f EXCEPT !.pc = "finish"])
          ELSE /\ UNCHANGED charObjs
               /\ Goto([f EXCEPT !.pc = "kills", !.i = 1])
  /\ UNCHANGED <<input, ret, regs, titleObjs, culObjs, faithObjs, dynObjs, out>>

\* the kills loop without the test of the budget
gChar_kills_unbudgeted ==
  /\ At("gChar", "kills")
  /\ LET f == Top
         list == doc.chars[f.id].kills
         o == CharOf(f)
     IN IF Len(list) > 0 /\ f.i <= Len(list)
          THEN LET d == list[f.i]
               IN IF Has(knownChars, d)
                    THEN /\ SetChar(f, [o EXCEPT
                              !.kills = Append(@, Obj(d, knownChars[d])),
                              !.attrs = @ \union {"kills"}])
                         /\ Goto([f EXCEPT !.i = f.i + 1])
                    ELSE /\ SetChar(f, [o EXCEPT !.attrs = @ \union {"kills"}])
                         /\ Call([f EXCEPT !.pc = "kills_ret"],
                                 [Frame("gChar", d) EXCEPT !.limit = f.limit - 1])
          ELSE /\ UNCHANGED charObjs
               /\ Goto([f EXCEPT !.pc = "government"])
  /\ UNCHANGED <<input, ret, regs, titleObjs, culObjs, faithObjs, dynObjs, out>>

\* `if len(findKills) > 0 and limit > 0`: each kill is the registered
\* character or gChar(dead, ..., limit - 1); no try encloses the call
gChar_kills ==
  /\ At("gChar", "kills")
  /\ LET f == Top
         list == doc.chars[f.id].kills
         o == CharOf(f)
     IN IF Len(list) > 0 /\ f.limit > 0 /\ f.i <= Len(list)
          THEN LET d == list[f.i]
               IN IF Has(knownChars, d)
                    THEN /\ SetChar(f, [o EXCEPT
                              !.kills = Append(@, Obj(d, knownChars[d])),
                              !.attrs = @ \union {"kills"}])
                         /\ Goto([f EXCEPT !.i = f.i + 1])
                    ELSE /\ SetChar(f, [o EXCEPT !.attrs = @ \union {"kills"}])
                         /\ Call([f EXCEPT !.pc = "kills_ret"],
                                 [Frame("gChar", d) EXCEPT !.limit = f.limit - 1])
          ELSE /\ UNCHANGED charObjs
               /\ Goto([f EXCEPT !.pc = "government"])
  /\ UNCHANGED <<input, ret, regs, titleObjs, culObjs, faithObjs, dynObjs, out>>

gChar_kills_ret ==
  /\ At("gChar", "kills_ret")
  /\ SetChar(Top, [CharOf(Top) EXCEPT !.kills = Append(@, ret)])
  /\ Goto([Top EXCEPT !.pc = "kills", !.i = Top.i + 1])
  /\ UNCHANGED <<input, ret, regs, titleObjs, culObjs, faithObjs, dynObjs, out>>

\* a living character's government: landed, or 'Unlanded'
gChar_government ==
  /\ At("gChar", "government")
  /\ LET f == Top
         o == CharOf(f)
     IN IF doc.chars[f.id].government /\ ~doc.chars[f.id].hasDomain
          THEN \* findDomain[0] on a block without a domain list
               /\ SetChar(f, [o EXCEPT !.government = "government"])
               /\ Raise("IndexError")
        ELSE IF doc.chars[f.id].government
          THEN /\ SetChar(f, [o EXCEPT !.government = "government",
                                       !.attrs = @ \union {"titles"}])
               /\ Goto([f EXCEPT !.pc = "domain", !.i = 1])
          ELSE /\ SetChar(f, [o EXCEPT !.government = "Unlanded"])
               /\ Goto([f EXCEPT !.pc = "memories"])
  /\ UNCHANGED <<input, ret, regs, titleObjs, culObjs, faithObjs, dynObjs, out>>

\* self.titles: each title of the domain is the registered title or
\* gTitle(title, ...) with the default lookUp and lookDown
gChar_domain ==
  /\ At("gChar", "domain")
  /\ LET f == Top
         list == doc.chars[f.id].domain
         o == CharOf(f)
     IN IF f.i <= Len(list)
          THEN LET t == list[f.i]
               IN IF Has(knownTitles, t)
                    THEN /\ SetChar(f, [o EXCEPT
                              !.titles = Append(@, Obj(t, knownTitles[t]))])
                         /\ Goto([f EXCEPT !.i = f.i + 1])
                    ELSE /\ UNCHANGED charObjs
                         /\ Call([f EXCEPT !.pc = "domain_ret"],
                                 Frame("gTitle", t))
          ELSE /\ UNCHANGED charObjs
               /\ Goto([f EXCEPT !.pc = IF o.dead THEN "finish" ELSE "vassals",
                                 !.i = 1])
  /\ UNCHANGED <<input, ret, regs, titleObjs, culObjs, faithObjs, dynObjs, out>>

gChar_domain_ret ==
  /\ At("gChar", "domain_ret")
  /\ SetChar(Top, [CharOf(Top) EXCEPT !.titles = Append(@, ret)])
  /\ Goto([Top EXCEPT !.pc = "domain", !.i = Top.i + 1])
  /\ UNCHANGED <<input, ret, regs, titleObjs, culObjs, faithObjs, dynObjs, out>>

\* `if len(findVassals) > 0 and limit > 0`: each contract, inside a try whose
\* except passes, gives the registered vassal or gChar(vassalId, ..., limit - 1)
gChar_vassals ==
  /\ At("gChar", "vassals")
  /\ LET f == Top
         list == doc.chars[f.id].contracts
         o == CharOf(f)
     IN IF Len(list) > 0 /\ f.limit > 0 /\ f.i <= Len(list)
          THEN LET con == list[f.i]
                   o1 == [o EXCEPT !.attrs = @ \union {"vassals"}]
               IN IF ~Has(doc.contracts, con)
                    THEN \* findVassal fails: except: pass
                         /\ SetChar(f, o1)
                         /\ Goto([f EXCEPT !.i = f.i + 1])
                    ELSE LET v == doc.contracts[con]
                         IN IF Has(knownChars, v)
                              THEN /\ SetChar(f, [o1 EXCEPT !.vassals =
                                        Append(@, Obj(v, knownChars[v]))])
                                   /\ Goto([f EXCEPT !.i = f.i + 1])
                              ELSE /\ SetChar(f, o1)
                                   /\ Call([f EXCEPT !.pc = "vassals_ret"],
                                           [Frame("gChar", v) EXCEPT
                                              !.limit = f.limit - 1])
          ELSE /\ UNCHANGED charObjs
               /\ Goto([f EXCEPT !.pc = "memories"])
  /\ UNCHANGED <<input, ret, regs, titleObjs, culObjs, faithObjs, dynObjs, out>>

gChar_vassals_ret ==
  /\ At("gChar", "vassals_ret")
  /\ SetChar(Top, [CharOf(Top) EXCEPT !.vassals = Append(@, ret)])
  /\ Goto([Top EXCEPT !.pc = "vassals", !.i = Top.i + 1])
  /\ UNCHANGED <<input, ret, regs, titleObjs, culObjs, faithObjs, dynObjs, out>>

\* the `except: pass` around one vassal
gChar_vassals_except ==
  /\ exc # "none"
  /\ Top.fn = "gChar"
  /\ Top.pc = "vassals_ret"
  /\ stack' = [stack EXCEPT ![Len(stack)] =
                 [Top EXCEPT !.pc = "vassals", !.i = Top.i + 1]]
  /\ exc' = "none"
  /\ UNCHANGED <<input, ret, regs, heaps, out, raised>>

\* gMem.__init__ finds its block and, for each participant, the registered
\* character or the first name read from the participant's block
gMemFails(m) ==
  \/ ~Has(doc.mems, m)
  \/ \E j \in 1..Len(doc.mems[m].participants) :
       ~CanNameChar(doc.mems[m].participants[j])

\* gMem with every participant left as a display name
gMem_names(m) ==
  [memId |-> m,
   participants |-> [j \in 1..Len(doc.mems[m].participants) |->
                       Name(doc.mems[m].participants[j])]]

gMem(m) ==
  [memId |-> m,
   participants |-> [j \in 1..Len(doc.mems[m].participants) |->
                       getChrNameOrObj(doc.mems[m].participants[j])]]

\* findall(r'memories={(.*?)}')[0], then one gMem per memory
gChar_memories ==
  /\ At("gChar", "memories")
  /\ LET f == Top
         c == doc.chars[f.id]
         o == CharOf(f)
     IN IF ~c.mem \/ \E j \in 1..Len(c.memories) : gMemFails(c.memories[j])
          THEN /\ Raise("IndexError")
               /\ UNCHANGED charObjs
          ELSE /\ Goto([f EXCEPT !.pc = "finish"])
               /\ IF Len(c.memories) > 0
                    THEN SetChar(f, [o EXCEPT
                           !.memories = [j \in 1..Len(c.memories) |->
                                           gMem(c.memories[j])],
                           !.attrs = @ \union {"memories"}])
                    ELSE UNCHANGED charObjs
  /\ UNCHANGED <<input, ret, regs, titleObjs, culObjs, faithObjs, dynObjs, out>>

\* `knownChars[charid] = self` again, the character's page, return
gChar_finish ==
  /\ At("gChar", "finish")
  /\ LET f == Top
     IN /\ knownChars' = (f.id :> f.h) @@ knownChars
        /\ SetChar(f, [CharOf(f) EXCEPT !.done = TRUE])
        /\ pages' = pages \union {[kind |-> "char", id |-> f.id, h |-> f.h]}
        /\ Return(Obj(f.id, f.h))
  /\ UNCHANGED <<input, knownTitles, knownCuls, knownFaiths, knownDyns,
                 titleObjs, culObjs, faithObjs, dynObjs, lineages>>

\* -------------------------------------------------------------- gTitle
TitleOf(f) == titleObjs[f.h]

SetTitle(f, o) == titleObjs' = [titleObjs EXCEPT ![f.h] = o]

\* gTitle_register without the early insertion: the title enters the
\* registry only when its constructor finishes
gTitle_register_late(id, h) == knownTitles

\* `knownTitles[titleid] = self` right after key and name are read
gTitle_register(id, h) == (id :> h) @@ knownTitles

\* the entries of a history block that can be read: up to the first holder
\* that is neither registered nor has a block
RECURSIVE HistoryPrefix(_, _)
HistoryPrefix(hist, n) ==
  IF n > Len(hist) THEN Len(hist)
  ELSE IF hist[n].type # "destroyed" /\ ~CanNameChar(hist[n].holder) THEN n - 1
  ELSE HistoryPrefix(hist, n + 1)

\* self.history[date] = [holder, type] for the first n entries, in order
RECURSIVE HistoryDict(_, _)
HistoryDict(hist, n) ==
  IF n = 0 THEN <<>>
  ELSE (hist[n].date :>
          [holder |-> IF hist[n].type = "destroyed" THEN Str("")
                      ELSE getChrNameOrObj(hist[n].holder),
           type |-> IF hist[n].type = "plain" THEN "gained" ELSE hist[n].type])
       @@ HistoryDict(hist, n - 1)

\* findTitleData, key, name, registration; unless the key contains 'b_',
\* the history
gTitle_start ==
  /\ At("gTitle", "start")
  /\ LET f == Top
         h == Len(titleObjs) + 1
     IN IF ~Has(doc.titles, f.id)
          THEN /\ Raise("IndexError")
               /\ UNCHANGED <<regs, heaps>>
          ELSE LET t == doc.titles[f.id]
                   n == HistoryPrefix(t.history, 1)
                   o == NewTitle(f.id, t.key)
               IN /\ knownTitles' = gTitle_register(f.id, h)
                  /\ IF IsBaronyKey(t.key)
                       THEN /\ titleObjs' = Append(titleObjs, o)
                            /\ Goto([f EXCEPT !.h = h, !.pc = "finish"])
                       ELSE /\ titleObjs' = Append(titleObjs,
                                 IF Len(t.history) > 0
                                   THEN [o EXCEPT
                                           !.history = HistoryDict(t.history, n),
                                           !.attrs = @ \union {"history"}]
                                   ELSE o)
                            /\ IF n < Len(t.history)
                                 THEN Raise("IndexError")
                                 ELSE Goto([f EXCEPT !.h = h, !.pc = "liege",
                                                     !.i = 1])
                  /\ UNCHANGED <<knownChars, knownCuls, knownFaiths, knownDyns,
                                 charObjs, culObjs, faithObjs, dynObjs>>
  /\ UNCHANGED <<input, ret, out>>

\* the two liege fields, in the order the constructor reads them
LiegeField == <<"dejure", "defacto">>
LiegeAttr  == <<"de_jure", "de_facto">>

\* the lookDown a liege reached upwards is built with (lookDownToggle)
lookDownToggle == FALSE

\* de_jure_liege, then de_facto_liege: the registered title, else with
\* lookUp a new gTitle(lookUp=True, lookDown=lookDownToggle), else its name
gTitle_liege ==
  /\ At("gTitle", "liege")
  /\ LET f == Top
         o == TitleOf(f)
     IN IF f.i > Len(LiegeField)
          THEN /\ Goto([f EXCEPT !.pc = "vassals", !.i = 1])
               /\ UNCHANGED titleObjs
          ELSE LET l == doc.titles[f.id][LiegeField[f.i]]
                   go(v) == /\ SetTitle(f, [o EXCEPT ![LiegeAttr[f.i]] = v])
                            /\ Goto([f EXCEPT !.i = f.i + 1])
               IN IF l = ""
                    THEN Goto([f EXCEPT !.i = f.i + 1]) /\ UNCHANGED titleObjs
                  ELSE IF Has(knownTitles, l) THEN go(Obj(l, knownTitles[l]))
                  ELSE IF f.lookUp
                    THEN /\ Call([f EXCEPT !.pc = "liege_ret"],
                                 [Frame("gTitle", l) EXCEPT
                                    !.lookUp = TRUE,
                                    !.lookDown = lookDownToggle])
                         /\ UNCHANGED titleObjs
                  ELSE IF Has(doc.titles, l) THEN go(Name(l))
                  ELSE Raise("IndexError") /\ UNCHANGED titleObjs
  /\ UNCHANGED <<input, ret, regs, charObjs, culObjs, faithObjs, dynObjs, out>>

gTitle_liege_ret ==
  /\ At("gTitle", "liege_ret")
  /\ SetTitle(Top, [TitleOf(Top) EXCEPT ![LiegeAttr[Top.i]] = ret])
  /\ Goto([Top EXCEPT !.pc = "liege", !.i = Top.i + 1])
  /\ UNCHANGED <<input, ret, regs, charObjs, culObjs, faithObjs, dynObjs, out>>

\* the frame of `gTitle(vassal, allData, env, path, lookUp=False)`: lookDown
\* is left at its default
gTitle_vassalCall(f, v) ==
  [Frame("gTitle", v) EXCEPT !.lookUp = FALSE, !.lookDown = TRUE]

\* de_jure_vassals: the registered title, else with lookDown a new
\* gTitle(vassal, lookUp=False), else its name
gTitle_vassals ==
  /\ At("gTitle", "vassals")
  /\ LET f == Top
         o == TitleOf(f)
         list == doc.titles[f.id].vassals
     IN IF f.i > Len(list)
          THEN /\ Goto([f EXCEPT !.pc = "finish"])
               /\ UNCHANGED titleObjs
          ELSE LET v == list[f.i]
                   go(x) == /\ SetTitle(f, [o EXCEPT
                                 !.vassals = Append(@, x),
                                 !.attrs = @ \union {"vassals"}])
                            /\ Goto([f EXCEPT !.i = f.i + 1])
               IN IF Has(knownTitles, v) THEN go(Obj(v, knownTitles[v]))
                  ELSE IF f.lookDown
                    THEN /\ Call([f EXCEPT !.pc = "vassals_ret"],
                                 gTitle_vassalCall(f, v))
                         /\ SetTitle(f, [o EXCEPT !.attrs = @ \union {"vassals"}])
                  ELSE IF Has(doc.titles, v) THEN go(Name(v))
                  ELSE /\ Raise("IndexError")
                       /\ SetTitle(f, [o EXCEPT !.attrs = @ \union {"vassals"}])
  /\ UNCHANGED <<input, ret, regs, charObjs, culObjs, faithObjs, dynObjs, out>>

gTitle_vassals_ret ==
  /\ At("gTitle", "vassals_ret")
  /\ SetTitle(Top, [TitleOf(Top) EXCEPT !.vassals = Append(@, ret)])
  /\ Goto([Top EXCEPT !.pc = "vassals", !.i = Top.i + 1])
  /\ UNCHANGED <<input, ret, regs, charObjs, culObjs, faithObjs, dynObjs, out>>

\* `knownTitles[titleid] = self` again, the page unless 'b_' is in the key
gTitle_finish ==
  /\ At("gTitle", "finish")
  /\ LET f == Top
     IN /\ knownTitles' = (f.id :> f.h) @@ knownTitles
        /\ SetTitle(f, [TitleOf(f) EXCEPT !.done = TRUE])
        /\ pages' = IF IsBaronyKey(TitleOf(f).key) THEN pages
                    ELSE pages \union {[kind |-> "title", id |-> f.id, h |-> f.h]}
        /\ Return(Obj(f.id, f.h))
  /\ UNCHANGED <<input, knownChars, knownCuls, knownFaiths, knownDyns,
                 charObjs, culObjs, faithObjs, dynObjs, lineages>>

\* -------------------------------------------------------------- gFaith
\* the faith's block and fields, then the religious head: the registered
\* title or gTitle(head) inside `try ... except IndexError: pass`
gFaith_start ==
  /\ At("gFaith", "start")
  /\ LET f == Top
         h == Len(faithObjs) + 1
     IN IF ~Has(doc.faiths, f.id)
          THEN /\ Raise("IndexError")
               /\ UNCHANGED faithObjs
          ELSE LET hd == doc.faiths[f.id].head
                   o == NewFaith(f.id)
               IN IF hd = ""
                    THEN /\ faithObjs' = Append(faithObjs, o)
                         /\ Goto([f EXCEPT !.h = h, !.pc = "finish"])
                  ELSE IF Has(knownTitles, hd)
                    THEN /\ faithObjs' = Append(faithObjs,
                              [o EXCEPT !.head = Obj(hd, knownTitles[hd]),
                                        !.attrs = {"head"}])
                         /\ Goto([f EXCEPT !.h = h, !.pc = "finish"])
                  ELSE /\ faithObjs' = Append(faithObjs, o)
                       /\ Call([f EXCEPT !.h = h, !.pc = "head_ret"],
                               Frame("gTitle", hd))
  /\ UNCHANGED <<input, ret, regs, charObjs, titleObjs, culObjs, dynObjs, out>>

gFaith_head_ret ==
  /\ At("gFaith", "head_ret")
  /\ faithObjs' = [faithObjs EXCEPT ![Top.h].head = ret,
                                    ![Top.h].attrs = {"head"}]
  /\ Goto([Top EXCEPT !.pc = "finish"])
  /\ UNCHANGED <<input, ret, regs, charObjs, titleObjs, culObjs, dynObjs, out>>

\* `except IndexError: pass`: the faith is left without a head
gFaith_except ==
  /\ exc = "IndexError"
  /\ Top.fn = "gFaith"
  /\ Top.pc = "head_ret"
  /\ stack' = [stack EXCEPT ![Len(stack)] = [Top EXCEPT !.pc = "finish"]]
  /\ exc' = "none"
  /\ UNCHANGED <<input, ret, regs, heaps, out, raised>>

\* `knownFaiths[faid] = self`, the faith's page
gFaith_finish ==
  /\ At("gFaith", "finish")
  /\ LET f == Top
     IN /\ knownFaiths' = (f.id :> f.h) @@ knownFaiths
        /\ faithObjs' = [faithObjs EXCEPT ![f.h].done = TRUE]
        /\ pages' = pages \union {[kind |-> "faith", id |-> f.id, h |-> f.h]}
        /\ Return(Obj(f.id, f.h))
  /\ UNCHANGED <<input, knownChars, knownTitles, knownCuls, knownDyns,
                 charObjs, titleObjs, culObjs, dynObjs, lineages>>

\* ------------------------------------------------------------ gCulture
\* the culture's block, name, ethos, heritage, language
gCulture_start ==
  /\ At("gCulture", "start")
  /\ LET f == Top
     IN IF ~Has(doc.culs, f.id)
          THEN /\ Raise("IndexError")
               /\ UNCHANGED culObjs
          ELSE /\ culObjs' = Append(culObjs, NewCulture(f.id))
               /\ Goto([f EXCEPT !.h = Len(culObjs) + 1, !.pc = "parents",
                                 !.i = 1])
  /\ UNCHANGED <<input, ret, regs, charObjs, titleObjs, faithObjs, dynObjs, out>>

\* each parent is the registered culture or gCulture(parent, ...)
gCulture_parents ==
  /\ At("gCulture", "parents")
  /\ LET f == Top
         list == doc.culs[f.id].parents
     IN IF f.i > Len(list)
          THEN /\ Goto([f EXCEPT !.pc = "finish"])
               /\ UNCHANGED culObjs
          ELSE LET p == list[f.i]
               IN IF Has(knownCuls, p)
                    THEN /\ culObjs' = [culObjs EXCEPT ![f.h].parents =
                                          Append(@, Obj(p, knownCuls[p]))]
                         /\ Goto([f EXCEPT !.i = f.i + 1])
                    ELSE /\ Call([f EXCEPT !.pc = "parents_ret"],
                                 Frame("gCulture", p))
                         /\ UNCHANGED culObjs
  /\ UNCHANGED <<input, ret, regs, charObjs, titleObjs, faithObjs, dynObjs, out>>

gCulture_parents_ret ==
  /\ At("gCulture", "parents_ret")
  /\ culObjs' = [culObjs EXCEPT ![Top.h].parents = Append(@, ret)]
  /\ Goto([Top EXCEPT !.pc = "parents", !.i = Top.i + 1])
  /\ UNCHANGED <<input, ret, regs, charObjs, titleObjs, faithObjs, dynObjs, out>>

\* traditions, martial custom, `knownCuls[culid] = self`, the culture's page
gCulture_finish ==
  /\ At("gCulture", "finish")
  /\ LET f == Top
     IN /\ knownCuls' = (f.id :> f.h) @@ knownCuls
        /\ culObjs' = [culObjs EXCEPT ![f.h].done = TRUE]
        /\ pages' = pages \union {[kind |-> "culture", id |-> f.id, h |-> f.h]}
        /\ Return(Obj(f.id, f.h))
  /\ UNCHANGED <<input, knownChars, knownTitles, knownFaiths, knownDyns,
                 charObjs, titleObjs, faithObjs, dynObjs, lineages>>

\* --------------------------------------------------------------- gDynn
\* house: findHouseData and `knownDyns[dynid] = self`, then the parent
\* dynasty gDynn(parentId, ..., False); dynasty: findDynastyData, no registry
gDynn_start ==
  /\ At("gDynn", "start")
  /\ LET f == Top
         h == Len(dynObjs) + 1
     IN IF f.house
          THEN IF ~Has(doc.houses, f.id)
                 THEN /\ Raise("IndexError")
                      /\ UNCHANGED <<dynObjs, knownDyns>>
                 ELSE /\ dynObjs' = Append(dynObjs, NewDynn(f.id, TRUE))
                      /\ knownDyns' = (f.id :> h) @@ knownDyns
                      /\ Call([f EXCEPT !.h = h, !.pc = "parent_ret"],
                              [Frame("gDynn", doc.houses[f.id].dynasty) EXCEPT
                                 !.house = FALSE])
          ELSE IF ~Has(doc.dyns, f.id)
                 THEN /\ Raise("IndexError")
                      /\ UNCHANGED <<dynObjs, knownDyns>>
                 ELSE /\ dynObjs' = Append(dynObjs, NewDynn(f.id, FALSE))
                      /\ UNCHANGED knownDyns
                      /\ Goto([f EXCEPT !.h = h, !.pc = "leaders"])
  /\ UNCHANGED <<input, ret, knownChars, knownTitles, knownCuls, knownFaiths,
                 charObjs, titleObjs, culObjs, faithObjs, out>>

\* self.parent = gDynn(parentId, allData, env, path, False)
gDynn_parent_ret ==
  /\ At("gDynn", "parent_ret")
  /\ dynObjs' = [dynObjs EXCEPT ![Top.h].parent = ret]
  /\ Goto([Top EXCEPT !.pc = "leaders"])
  /\ UNCHANGED <<input, ret, regs, charObjs, titleObjs, culObjs, faithObjs, out>>

\* the historical leaders through getChrNameOrObj; a house is registered
\* again; the page
gDynn_leaders ==
  /\ At("gDynn", "leaders")
  /\ LET f == Top
         list == IF f.house THEN doc.houses[f.id].leaders
                 ELSE doc.dyns[f.id].leaders
     IN IF \E j \in 1..Len(list) : ~CanNameChar(list[j])
          THEN /\ Raise("IndexError")
               /\ UNCHANGED <<ret, dynObjs, knownDyns, pages>>
          ELSE /\ dynObjs' = [dynObjs EXCEPT
                    ![f.h].leaders = [j \in 1..Len(list) |->
                                        getChrNameOrObj(list[j])],
                    ![f.h].done = TRUE]
               /\ knownDyns' = IF f.house THEN (f.id :> f.h) @@ knownDyns
                               ELSE knownDyns
               /\ pages' = pages \union
                    {[kind |-> IF f.house THEN "house" ELSE "dynasty",
                      id |-> f.id, h |-> f.h]}
               /\ Return(Obj(f.id, f.h))
  /\ UNCHANGED <<input, knownChars, knownTitles, knownCuls, knownFaiths,
                 charObjs, titleObjs, culObjs, faithObjs, lineages>>

\* --------------------------------------------------------- exceptions
\* whether frame f, waiting for a call to return, encloses it in a try
\* that catches e
Catches(f, e) ==
  \/ f.fn = "main"
  \/ f.fn = "findLinkedChars"
  \/ f.fn = "gChar" /\ f.pc = "vassals_ret"
  \/ f.fn = "gFaith" /\ f.pc = "head_ret" /\ e = "IndexError"

\* the exception leaves a frame that does not catch it
Propagate ==
  /\ exc # "none"
  /\ ~Catches(Top, exc)
  /\ stack' = SubSeq(stack, 1, Len(stack) - 1)
  /\ UNCHANGED <<input, exc, ret, regs, heaps, out, raised>>

\* ------------------------------------------------- the comparison pass
\* the same save file with the entries of every reference list (children,
\* spouses, former spouses, kills, vassal contracts, de jure vassals) in
\* the opposite order
ReverseLists(d) ==
  [d EXCEPT
     !.chars = [c \in DOMAIN d.chars |->
                  [d.chars[c] EXCEPT !.child = Reverse(@),
                                     !.spouse = Reverse(@),
                                     !.former = Reverse(@),
                                     !.kills = Reverse(@),
                                     !.contracts = Reverse(@)]],
     !.titles = [t \in DOMAIN d.titles |->
                   [d.titles[t] EXCEPT !.vassals = Reverse(@)]]]

AbsVal(v) == [k |-> v.k, id |-> v.id]

AbsSet(s) == {AbsVal(s[j]) : j \in 1..Len(s)}

FanOut == {"spouses", "former", "children", "kills", "vassals"}

\* a character's fields, without handles and without list order
CharContent(o) ==
  [a \in FanOut \union {"titles"} |-> AbsSet(o[a])]

\* a title's fields, without handles and without list order
TitleContent(o) ==
  [de_jure |-> AbsVal(o.de_jure), de_facto |-> AbsVal(o.de_facto),
   vassals |-> AbsSet(o.vassals)]

\* how many of a character's listed relatives are full character objects
Full(s) == Cardinality({j \in 1..Len(s) : IsObj(s[j])})

Detail(o) ==
  Full(o.spouses) + Full(o.former) + Full(o.children) + Full(o.kills)
    + Full(o.vassals)

Summary(v) ==
  [variation |-> v,
   raised |-> raised,
   chars |-> DOMAIN knownChars,
   titles |-> DOMAIN knownTitles,
   culs |-> DOMAIN knownCuls,
   faiths |-> DOMAIN knownFaiths,
   dyns |-> DOMAIN knownDyns,
   charContent |-> [c \in DOMAIN knownChars |->
                      CharContent(charObjs[knownChars[c]])],
   titleContent |-> [t \in DOMAIN knownTitles |->
                       TitleContent(titleObjs[knownTitles[t]])],
   detail |-> [c \in DOMAIN knownChars |-> Detail(charObjs[knownChars[c]])]]

MainFrame(limit) == [Frame("main", "") EXCEPT !.limit = limit]

Fresh ==
  /\ exc = "none"
  /\ ret = NoValue
  /\ knownChars = <<>> /\ knownTitles = <<>> /\ knownCuls = <<>>
  /\ knownFaiths = <<>> /\ knownDyns = <<>>
  /\ charObjs = <<>> /\ titleObjs = <<>> /\ culObjs = <<>>
  /\ faithObjs = <<>> /\ dynObjs = <<>>
  /\ pages = {}
  /\ lineages = <<>>
  /\ raised = 0

\* A second, independent pass for comparison with the first: over the same
\* document with its lists reversed, or with the budget raised by one.
Rerun ==
  /\ At("main", "done")
  /\ run = 1
  /\ \E v \in {"order", "budget"} :
       /\ v = "budget" => limit0 < MaxLimit
       /\ prev' = Summary(v)
       /\ doc' = IF v = "order" THEN ReverseLists(doc) ELSE doc
       /\ limit0' = IF v = "budget" THEN limit0 + 1 ELSE limit0
       /\ stack' = <<MainFrame(limit0')>>
  /\ run' = 2
  /\ UNCHANGED <<pcall, pres>>
  /\ exc' = "none"
  /\ ret' = NoValue
  /\ knownChars' = <<>> /\ knownTitles' = <<>> /\ knownCuls' = <<>>
  /\ knownFaiths' = <<>> /\ knownDyns' = <<>>
  /\ charObjs' = <<>> /\ titleObjs' = <<>> /\ culObjs' = <<>>
  /\ faithObjs' = <<>> /\ dynObjs' = <<>>
  /\ pages' = {}
  /\ lineages' = <<>>
  /\ raised' = 0

\* ------------------------------------------------------ specification
Init ==
  /\ doc \in Docs
  /\ limit0 \in 0..MaxLimit
  /\ run = 1
  /\ prev = [variation |-> "none"]
  /\ stack = <<MainFrame(limit0)>>
  /\ Fresh
  /\ pcall = [fn |-> "none"]
  /\ pres = <<>>

Next ==
  \/ main_loop \/ main_ret \/ main_except
  \/ gLineage_loop \/ gLineage_ret
  \/ lChar_start \/ lChar_ret
  \/ findLinkedChars_loop \/ findLinkedChars_ret \/ findLinkedChars_except
  \/ gChar_start \/ gChar_culture \/ gChar_culture_ret
  \/ gChar_faith \/ gChar_faith_ret \/ gChar_traits
  \/ gChar_family \/ gChar_family_ret \/ gChar_house \/ gChar_house_ret
  \/ gChar_status \/ gChar_kills \/ gChar_kills_ret \/ gChar_government
  \/ gChar_domain \/ gChar_domain_ret
  \/ gChar_vassals \/ gChar_vassals_ret \/ gChar_vassals_except
  \/ gChar_memories \/ gChar_finish
  \/ gTitle_start \/ gTitle_liege \/ gTitle_liege_ret
  \/ gTitle_vassals \/ gTitle_vassals_ret \/ gTitle_finish
  \/ gFaith_start \/ gFaith_head_ret \/ gFaith_except \/ gFaith_finish
  \/ gCulture_start \/ gCulture_parents \/ gCulture_parents_ret
  \/ gCulture_finish
  \/ gDynn_start \/ gDynn_parent_ret \/ gDynn_leaders
  \/ Propagate
  \/ Rerun

Spec == Init /\ [][Next]_vars

\* the interpreter always takes the next step of the program
LiveSpec == Init /\ [][Next]_vars /\ WF_vars(Next)

\* ------------------------------------------- helper functions on their own
\* the strings over a small alphabet that meets '_1', 'is_' and upper case
Alphabet == {"i", "s", "_", "1", "2", "N"}

StringsUpTo(A, n) == UNION {[1..k -> A] : k \in 0..n}

\* title keys `<rank>_<body>`
KeyAlphabet == {"a", "b", "c", "_"}

TitleKeys ==
  {<<r, "_">> \o b : r \in {"b", "c", "d", "k", "e", "x"},
                     b \in StringsUpTo(KeyAlphabet, MaxKeyBody)}

Tokens == {<<"1">>, <<"2", "3">>}

\* '{ t1 t2 ... tn }'
RECURSIVE Spaced(_)
Spaced(tokens) ==
  IF tokens = <<>> THEN <<>>
  ELSE Head(tokens) \o <<" ">> \o Spaced(Tail(tokens))

Serialize(tokens) == <<"{", " ">> \o Spaced(tokens) \o <<"}">>

Kinds == {"char", "house", "dynasty", "title"}

\* blocks of every kind under two ids
Blocks == [id : {"1", "2"}, kind : Kinds]

PureFrame ==
  UNCHANGED <<doc, limit0, run, prev, pcall, stack, exc, ret, regs, heaps,
              out, raised>>

call_gameStringToRead ==
  /\ pcall.fn = "gameStringToRead"
  /\ Len(pres) < MaxCalls
  /\ pres' = Append(pres, [ok |-> TRUE, v |-> gameStringToRead(pcall.string)])
  /\ PureFrame

call_getTrait ==
  /\ pcall.fn = "getTrait"
  /\ Len(pres) < MaxCalls
  /\ pres' = Append(pres, [ok |-> TRUE, v |-> getTrait(pcall.traitId, pcall.n)])
  /\ PureFrame

call_getTitleName ==
  /\ pcall.fn = "getTitleName"
  /\ Len(pres) < MaxCalls
  /\ pres' = Append(pres,
        [ok |-> TRUE,
         v |-> getTitleName(pcall.key, pcall.article, pcall.baseName)])
  /\ PureFrame

call_ListField ==
  /\ pcall.fn = "ListField"
  /\ Len(pres) < MaxCalls
  /\ pres' = Append(pres, ListField(pcall.field, Serialize(pcall.tokens)))
  /\ PureFrame

call_locate ==
  /\ pcall.fn = "locate"
  /\ Len(pres) < MaxCalls
  /\ pres' = Append(pres, locate(pcall.kind, pcall.id, pcall.blocks))
  /\ PureFrame

\* between two calls some constructor registers a character
registry_grows ==
  /\ pcall.fn # "none"
  /\ Len(pres) = 1
  /\ knownChars = <<>>
  /\ charObjs' = Append(charObjs, NewChar("c1", 0))
  /\ knownChars' = gChar_register("c1", Len(charObjs) + 1)
  /\ UNCHANGED <<input, stack, exc, ret, knownTitles, knownCuls, knownFaiths,
                 knownDyns, titleObjs, culObjs, faithObjs, dynObjs, out, raised>>

InitPure ==
  /\ doc = BlankDoc
  /\ limit0 = 0
  /\ run = 1
  /\ prev = [variation |-> "none"]
  /\ stack = <<>>
  /\ Fresh
  /\ pres = <<>>
  /\ \/ \E x \in StringsUpTo(Alphabet, MaxStrLen) :
          pcall = [fn |-> "gameStringToRead", string |-> x]
     \/ \E n \in 0..MaxTraits : \E i \in (0 - 1)..(n + 2) :
          pcall = [fn |-> "getTrait", traitId |-> i, n |-> n]
     \/ \E k \in TitleKeys : \E a \in {<<>>, <<"the ">>} :
          pcall = [fn |-> "getTitleName", key |-> k, article |-> a,
                   baseName |-> <<"X">>]
     \/ \E f \in ListFields : \E t \in StringsUpTo(Tokens, MaxTokens) :
          pcall = [fn |-> "ListField", field |-> f, tokens |-> t]
     \/ \E k \in Kinds : \E b \in StringsUpTo(Blocks, MaxBlocks) :
          pcall = [fn |-> "locate", kind |-> k, id |-> "1", blocks |-> b]

NextPure ==
  \/ call_gameStringToRead \/ call_getTrait \/ call_getTitleName
  \/ call_ListField \/ call_locate \/ registry_grows

PureSpec == InitPure /\ [][NextPure]_vars

Done == stack # <<>> /\ Top.fn = "main" /\ Top.pc = "done"

\* ------------------------------------------------------------- claims
\* the characters the legacy blocks name: the roots of resolution
Roots == UNION {SeqToSet(doc.lineages[i]) : i \in 1..Len(doc.lineages)}

\* the ids the fan-out lists of character c name
ListedIds(c, a) ==
  IF ~Has(doc.chars, c) THEN {}
  ELSE LET d == doc.chars[c]
       IN CASE a = "spouses"  -> SeqToSet(d.spouse)
            [] a = "former"   -> SeqToSet(d.former)
            [] a = "children" -> SeqToSet(d.child)
            [] a = "kills"    -> IF d.dead THEN {} ELSE SeqToSet(d.kills)
            [] a = "vassals"  ->
                 IF d.dead \/ ~d.government THEN {}
                 ELSE {doc.contracts[x] :
                         x \in SeqToSet(d.contracts) \cap DOMAIN doc.contracts}

FanEdges(c) == UNION {ListedIds(c, a) : a \in FanOut}

\* the characters within k hops of a root along the fan-out lists
RECURSIVE Within(_)
Within(k) ==
  IF k = 0 THEN Roots
  ELSE LET w == Within(k - 1) IN w \union UNION {FanEdges(c) : c \in w}

FanReach == Within(Cardinality(DOMAIN doc.chars))

\* no two frames of constructor fn on the stack resolve the same id
NoReentry(fn) ==
  \A i, j \in 1..Len(stack) :
    (i < j /\ stack[i].fn = fn /\ stack[j].fn = fn) => stack[i].id # stack[j].id

OnePerId(heap, key) ==
  \A h1, h2 \in 1..Len(heap) : heap[h1][key] = heap[h2][key] => h1 = h2

CleanRun == Done /\ raised = 0

\* C1: within one run at most one entity object is ever constructed per
\* kind and identifier (character, title, culture, faith, house, dynasty).
C1_OneObjectPerId ==
  /\ OnePerId(charObjs, "charid")
  /\ OnePerId(titleObjs, "titleid")
  /\ OnePerId(culObjs, "culid")
  /\ OnePerId(faithObjs, "faid")
  /\ \A h1, h2 \in 1..Len(dynObjs) :
       (dynObjs[h1].dynid = dynObjs[h2].dynid
          /\ dynObjs[h1].house = dynObjs[h2].house) => h1 = h2

\* C2: two entries of one legacy block that name the same character are
\* backed by one and the same character object.
C2_EntriesShareCharacter ==
  \A l \in 1..Len(lineages) :
    \A i, j \in 1..Len(lineages[l]) :
      lineages[l][i].id = lineages[l][j].id
        => lineages[l][i].h = lineages[l][j].h

\* the titles whose de jure liege is also one of their de jure vassals
CyclicTitles ==
  {t \in DOMAIN doc.titles :
     /\ doc.titles[t].dejure # ""
     /\ doc.titles[t].dejure \in SeqToSet(doc.titles[t].vassals)}

\* the resolved roots whose liege's liege they are
LiegeCycleRoots ==
  {a \in Roots \cap DOMAIN doc.chars :
     LET b == doc.chars[a].liege
     IN b # "" /\ b # a /\ Has(doc.chars, b) /\ doc.chars[b].liege = a}

\* C3 as stated: after a clean run both members of a liege cycle are
\* registered, fully populated characters.
C3_LiegeCycleBothResolved ==
  CleanRun =>
    \A a \in LiegeCycleRoots :
      /\ Has(knownChars, a) /\ charObjs[knownChars[a]].done
      /\ Has(knownChars, doc.chars[a].liege)
      /\ charObjs[knownChars[doc.chars[a].liege]].done

\* C3 amended: no character and no title is resolved recursively a second
\* time; a liege is kept as an id on a dead character and never causes a
\* resolution (every registered character is reached along the fan-out
\* lists); after a clean run the member of a liege cycle that was asked for
\* is fully populated, and so are both titles of a de jure cycle, one
\* object each.
C3_CycleTermination ==
  /\ NoReentry("gChar")
  /\ NoReentry("gTitle")
  /\ OnePerId(titleObjs, "titleid")
  /\ DOMAIN knownChars \subseteq FanReach
  /\ \A h \in 1..Len(charObjs) :
       LET o == charObjs[h]
       IN o.liege # "" =>
            o.dead /\ o.liege = doc.chars[o.charid].liege /\ o.liege # o.charid
  /\ CleanRun =>
       /\ \A a \in LiegeCycleRoots :
            /\ Has(knownChars, a)
            /\ charObjs[knownChars[a]].done
            /\ charObjs[knownChars[a]].liege = doc.chars[a].liege
       /\ \A t \in CyclicTitles \cap DOMAIN knownTitles :
            LET l == doc.titles[t].dejure
            IN IsBaronyKey(doc.titles[t].key)
               \/ /\ Has(knownTitles, l)
                  /\ knownTitles[l] # knownTitles[t]
                  /\ titleObjs[knownTitles[l]].done
                  /\ titleObjs[knownTitles[t]].done

\* a clean run that resolved a root of a liege cycle, without its liege, and
\* both titles of a de jure cycle
C3_Witness ==
  /\ CleanRun
  /\ \E a \in LiegeCycleRoots :
       Has(knownChars, a) /\ ~Has(knownChars, doc.chars[a].liege)
  /\ \E t \in CyclicTitles :
       /\ Has(knownTitles, t) /\ Has(knownTitles, doc.titles[t].dejure)
       /\ IsObj(titleObjs[knownTitles[t]].de_jure)

\* the registry a constructor frame's entity belongs in
Registered(f) ==
  CASE f.fn = "gChar"    -> Has(knownChars, f.id) /\ knownChars[f.id] = f.h
    [] f.fn = "gTitle"   -> Has(knownTitles, f.id) /\ knownTitles[f.id] = f.h
    [] f.fn = "gCulture" -> Has(knownCuls, f.id) /\ knownCuls[f.id] = f.h
    [] f.fn = "gFaith"   -> Has(knownFaiths, f.id) /\ knownFaiths[f.id] = f.h
    [] f.fn = "gDynn"    -> Has(knownDyns, f.id) /\ knownDyns[f.id] = f.h
    [] OTHER             -> TRUE

\* C4: a constructor that has started a recursive resolution has already
\* inserted its own id into its registry.
C4_InsertBeforePopulate ==
  \A i \in 1..(Len(stack) - 1) : Registered(stack[i])

\* C5: a culture reached again through its parents is found in the culture
\* registry and not resolved recursively again.
C5_CultureNoReentry == NoReentry("gCulture")

\* the listed ids of character c that have a block
Nameable(c, a) == ListedIds(c, a) \cap DOMAIN doc.chars

\* C6: a character resolved with budget 0 holds a display name for every
\* listed id and starts no character resolution; one resolved with a budget
\* above 0 holds a full character for every listed id, and every nested
\* resolution runs with the budget minus one.
C6_BudgetPolicy ==
  /\ \A i \in 2..Len(stack) :
       (stack[i].fn = "gChar" /\ stack[i - 1].fn \in {"gChar", "findLinkedChars"})
         => stack[i - 1].limit > 0 /\ stack[i].limit = stack[i - 1].limit - 1
  /\ raised = 0 =>
       \A h \in 1..Len(charObjs) :
         LET o == charObjs[h]
         IN o.done =>
              \A a \in FanOut :
                Nameable(o.charid, a) # {} =>
                  /\ a \in o.attrs
                  /\ {o[a][j].id : j \in 1..Len(o[a])} = Nameable(o.charid, a)
                  /\ \A j \in 1..Len(o[a]) : IsObj(o[a][j]) <=> o.limit > 0

\* the levels of de jure vassals `lookDown: int = True` allows
lookDownLevels == 1

\* C7: below a title, at most lookDownLevels levels of de jure vassals are
\* resolved to full title objects.
C7_VassalDepthLimited ==
  Cardinality({i \in 1..Len(stack) :
                 stack[i].fn = "gTitle" /\ stack[i].pc = "vassals_ret"})
    <= lookDownLevels

BothClean == CleanRun /\ run = 2 /\ prev.raised = 0

\* C8: every character within k hops of a root has at least as many full
\* relatives in the run with budget k + 1 as in the run with budget k.
C8_BudgetMonotone ==
  (BothClean /\ prev.variation = "budget") =>
    \A c \in Within(limit0 - 1) \cap prev.chars :
      /\ Has(knownChars, c)
      /\ Detail(charObjs[knownChars[c]]) >= prev.detail[c]

\* C9: the registered ids are the same whichever order the reference lists
\* are traversed in.
C9_RegisteredSetOrderFree ==
  (BothClean /\ prev.variation = "order") =>
    /\ prev.chars = DOMAIN knownChars
    /\ prev.titles = DOMAIN knownTitles
    /\ prev.culs = DOMAIN knownCuls
    /\ prev.faiths = DOMAIN knownFaiths
    /\ prev.dyns = DOMAIN knownDyns

\* C10: a character or title registered in both traversal orders has the
\* same relatives, lieges and vassals, as objects or as names, in both.
C10_ContentOrderFree ==
  (BothClean /\ prev.variation = "order") =>
    /\ \A c \in prev.chars \cap DOMAIN knownChars :
         prev.charContent[c] = CharContent(charObjs[knownChars[c]])
    /\ \A t \in prev.titles \cap DOMAIN knownTitles :
         prev.titleContent[t] = TitleContent(titleObjs[knownTitles[t]])

\* the frames that wait for one element of a sibling list: an entry of a
\* legacy block, a kill, a vassal
ListSite(f) ==
  \/ f.fn = "gLineage" /\ f.pc = "ret"
  \/ f.fn = "gChar" /\ f.pc \in {"kills_ret", "vassals_ret"}

\* character block c has memories whose blocks exist, one of them with a
\* participant that cannot be resolved
ParticipantFails(c) ==
  /\ c.mem
  /\ \A j \in 1..Len(c.memories) : Has(doc.mems, c.memories[j])
  /\ \E j \in 1..Len(c.memories) : gMemFails(c.memories[j])

\* C11: when resolving one element of a sibling list (an entry of a legacy
\* block, a kill, a vassal, a participant of a memory) fails, the failure is
\* handled at the list: the loop goes on with the remaining elements and
\* the enclosing lineage, character or memory is still produced.
C11_SiblingIsolation ==
  [][/\ (exc' # "none" /\ stack' # <<>> /\ ListSite(stack'[Len(stack')]))
          => Catches(stack'[Len(stack')], exc')
     /\ (At("gChar", "memories") /\ ParticipantFails(doc.chars[Top.id]))
          => exc' = "none"]_vars

\* the block the driver is at is the one being attempted, and the driver
\* is done only after the last block
DriverOrder ==
  /\ stack # <<>>
  /\ stack[1].fn = "main"
  /\ Len(stack) >= 2 =>
       /\ stack[2].fn = "gLineage"
       /\ stack[1].i <= Len(doc.lineages)
       /\ stack[2].h = stack[1].i
       /\ stack[2].list = doc.lineages[stack[1].i]
  /\ Done => stack[1].i = Len(doc.lineages) + 1

\* within a pass the driver moves on by one block, and only when the
\* attempt on the current block is over; a block not yet attempted is
\* attempted next
DriverStep ==
  run' = run =>
    /\ \/ stack'[1].i = stack[1].i
       \/ /\ stack'[1].i = stack[1].i + 1
          /\ Len(stack) = 1
          /\ stack[1].pc = "ret"
    /\ (Len(stack) = 1 /\ stack[1].pc = "start"
          /\ stack[1].i <= Len(doc.lineages)) => Len(stack') = 2

\* C12: whatever the outcome of a lineage, the driver attempts every
\* played_character block exactly once, in document order, and then reaches
\* its final step.
C12_DriverContinues ==
  /\ []DriverOrder
  /\ [][DriverStep]_vars
  /\ []<>Done

\* a finished pass over three or more blocks in which a lineage was built
\* after an earlier one had failed
C12_Witness ==
  /\ Done
  /\ raised > 0
  /\ Len(doc.lineages) >= 3
  /\ \E p \in pages :
       /\ p.kind = "home"
       /\ \E j \in 1..(p.h - 1) :
            \A q \in pages : ~(q.kind = "home" /\ q.h = j)

\* the required parts of character c are not all there: no block, or a
\* block without a birth or a skill field
Incomplete(c) ==
  ~Has(doc.chars, c) \/ ~doc.chars[c].birth \/ ~doc.chars[c].skill

\* the constructor of character object h is still running
UnderConstruction(h) ==
  \E i \in 1..Len(stack) : stack[i].fn = "gChar" /\ stack[i].h = h

\* C13: a character whose resolution failed for want of a required block or
\* field has no entry in the character registry: every registered
\* character with such a block is one whose constructor is still running.
C13_NoPartialObject ==
  \A c \in DOMAIN knownChars :
    Incomplete(c) => UnderConstruction(knownChars[c])

\* C14: getTrait called with an index that is not the index of a trait of
\* the lookup file fails; it returns no value.
C14_TraitRangeChecked ==
  (pcall.fn = "getTrait" /\ pcall.traitId \notin 0..(pcall.n - 1)) =>
    \A j \in 1..Len(pres) : ~pres[j].ok

\* the running gChar frame is about to read the government of block c
ReadsGovernment(c) ==
  \/ At("gChar", "government")
  \/ At("gChar", "status") /\ c.dead

\* C15: the step that reads an absent culture or faith field sets
\* 'Lost to time...', an absent dynasty_house sets 'Lowborn', an absent
\* government, or a government without a domain list, sets 'Unlanded'; none
\* of these steps fails.
C15_Defaults ==
  [][/\ (At("gChar", "culture") /\ doc.chars[Top.id].culture = "")
          => /\ exc' = "none"
             /\ charObjs'[Top.h].culture = Str("Lost to time...")
     /\ (At("gChar", "faith") /\ doc.chars[Top.id].faith = "")
          => /\ exc' = "none"
             /\ charObjs'[Top.h].faith = Str("Lost to time...")
     /\ (At("gChar", "house") /\ doc.chars[Top.id].house = "")
          => /\ exc' = "none"
             /\ charObjs'[Top.h].house = Str("Lowborn")
     /\ (/\ stack # <<>>
         /\ ReadsGovernment(doc.chars[Top.id])
         /\ ~doc.chars[Top.id].government \/ ~doc.chars[Top.id].hasDomain)
          => /\ exc' = "none"
             /\ charObjs'[Top.h].government = "Unlanded"]_vars

\* C16: the step that reads an optional list the block lacks (traits,
\* recessive traits, spouses, former spouses, children, kills, vassal
\* contracts, memories) does not fail and leaves the list empty.
C16_AbsentListsTolerated ==
  [][/\ (At("gChar", "traits") /\ doc.chars[Top.id].skill)
          => /\ exc' = "none"
             /\ doc.chars[Top.id].traits = <<>> => charObjs'[Top.h].traits = <<>>
             /\ doc.chars[Top.id].recessive = <<>>
                  => charObjs'[Top.h].recessive = <<>>
     /\ (/\ At("gChar", "family")
         /\ Top.i <= Len(FamilyField)
         /\ doc.chars[Top.id][FamilyField[Top.i]] = <<>>)
          => /\ exc' = "none"
             /\ charObjs'[Top.h][FamilyAttr[Top.i]] = <<>>
     /\ (At("gChar", "kills") /\ doc.chars[Top.id].kills = <<>>)
          => /\ exc' = "none"
             /\ charObjs'[Top.h].kills = <<>>
     /\ (At("gChar", "vassals") /\ doc.chars[Top.id].contracts = <<>>)
          => /\ exc' = "none"
             /\ charObjs'[Top.h].vassals = <<>>
     /\ (At("gChar", "memories") /\ ~doc.chars[Top.id].mem)
          => /\ exc' = "none"
             /\ charObjs'[Top.h].memories = <<>>]_vars

\* C17: for every list field written as '{ t1 t2 ... tn }' (traits, skills,
\* children, former spouses, domain, kills, culture parents, traditions, title
\* vassals) the extracted list is exactly <<t1, ..., tn>>: no empty leading or
\* trailing token is kept and no token is dropped.
C17_TokensExact ==
  (/\ pcall.fn = "ListField"
   /\ pcall.field \in {"traits", "skills", "children", "former", "domain",
                       "kills", "parents", "traditions", "vassals"})
    => \A j \in 1..Len(pres) : pres[j] = [ok |-> TRUE, v |-> pcall.tokens]

\* C19: for a title whose key starts with 'c_' and that has no article,
\* getTitleName returns 'County of ' followed by the name; for a title that
\* has an article the result is the article followed by the name, with no
\* rank label, whatever the key.
C19_TitleNaming ==
  pcall.fn = "getTitleName"
    => \A j \in 1..Len(pres) :
         /\ (SubSeq(pcall.key, 1, 2) = <<"c", "_">> /\ pcall.article = <<>>)
              => pres[j].v = <<"County of ">> \o pcall.baseName
         /\ pcall.article # <<>>
              => pres[j].v = pcall.article \o pcall.baseName

BaronyKey(key) == Len(key) >= 2 /\ SubSeq(key, 1, 2) = <<"b", "_">>

\* C20: resolving a barony title registers it with its key but does not
\* expand its block: its history, de jure liege, de facto liege and vassals
\* stay unread, no constructor runs on its behalf, its constructor changes
\* no character, culture, faith or dynasty and builds no other title, and
\* no page is rendered for it.
C20_BaronyNotExpanded ==
  /\ [](\A h \in 1..Len(titleObjs) :
          LET o == titleObjs[h]
          IN BaronyKey(o.key)
               => /\ Has(knownTitles, o.titleid)
                  /\ o.key = doc.titles[o.titleid].key
                  /\ o.attrs = {}
                  /\ o.history = <<>>
                  /\ o.de_jure = NoValue
                  /\ o.de_facto = NoValue
                  /\ o.vassals = <<>>
                  /\ \A p \in pages : ~(p.kind = "title" /\ p.h = h))
  /\ [](\A i \in 1..Len(stack) :
          (/\ stack[i].fn = "gTitle"
           /\ Has(doc.titles, stack[i].id)
           /\ BaronyKey(doc.titles[stack[i].id].key))
            => i = Len(stack))
  /\ [][(/\ stack # <<>>
         /\ Top.fn = "gTitle"
         /\ Has(doc.titles, Top.id)
         /\ BaronyKey(doc.titles[Top.id].key))
          => /\ UNCHANGED <<charObjs, culObjs, faithObjs, dynObjs, knownChars,
                            knownCuls, knownFaiths, knownDyns, pages>>
             /\ Len(titleObjs') <= Len(titleObjs) + 1
             /\ \A h \in 1..Len(titleObjs) :
                  titleObjs'[h] = titleObjs[h] \/ titleObjs[h].titleid = Top.id
             /\ Len(stack') < Len(stack) \/ stack'[Len(stack')].fn = "gTitle"]_vars

\* a barony listed as de jure vassal of a county was resolved to an object,
\* its block naming a de jure liege
C20_Witness ==
  \E h \in 1..Len(titleObjs) :
    /\ BaronyKey(titleObjs[h].key)
    /\ titleObjs[h].done
    /\ doc.titles[titleObjs[h].titleid].dejure # ""
    /\ \E g \in 1..Len(titleObjs) :
         \E j \in 1..Len(titleObjs[g].vassals) :
           titleObjs[g].vassals[j] = Obj(titleObjs[h].titleid, h)

\* C21: resolving a memory leaves every registry unchanged: it creates and
\* registers no character (nor any other entity), the memory is stored in no
\* registry, and each participant is the registered character object when
\* the id is in the character registry and the display name otherwise.
C21_MemoryNoRegistry ==
  [][At("gChar", "memories")
       => /\ UNCHANGED <<regs, titleObjs, culObjs, faithObjs, dynObjs>>
          /\ Len(charObjs') = Len(charObjs)
          /\ \A h \in 1..Len(charObjs) :
               h # Top.h => charObjs'[h] = charObjs[h]
          /\ Len(stack') <= Len(stack)
          /\ LET mems == charObjs'[Top.h].memories
             IN \A j \in 1..Len(mems) :
                  /\ \A r \in 1..Len(regs) : ~Has(regs[r]', mems[j].memId)
                  /\ \A i \in 1..Len(mems[j].participants) :
                       LET p == doc.mems[mems[j].memId].participants[i]
                       IN mems[j].participants[i] =
                            IF Has(knownChars, p) THEN Obj(p, knownChars[p])
                            ELSE Name(p)]_vars

\* a resolved memory one of whose participants is a registered character
\* and another a character that was never resolved
C21_Witness ==
  \E h \in 1..Len(charObjs) : \E j \in 1..Len(charObjs[h].memories) :
    LET ps == charObjs[h].memories[j].participants
    IN /\ \E i \in 1..Len(ps) : ps[i].k = "obj"
       /\ \E i \in 1..Len(ps) : ps[i].k = "name"

\* the field that tells a block of this kind from the others
Anchor(kind) ==
  IF kind = "char" THEN "first_name"
  ELSE IF kind = "house" THEN "dynasty"
  ELSE IF kind = "dynasty" THEN "prestige"
  ELSE "name"

\* C22: for every kind, when several blocks start with the same identifier
\* the locator returns the first block in document order that contains the
\* kind's anchor field, and never a block of another kind that shares the
\* identifier.
C22_LocateByAnchor ==
  pcall.fn = "locate"
    => \A j \in 1..Len(pres) :
         LET bs == pcall.blocks
             cands == {i \in 1..Len(bs) :
                         bs[i].id = pcall.id /\ InBlock(Anchor(pcall.kind), bs[i])}
         IN /\ cands # {}
                 => /\ pres[j].ok
                    /\ pres[j].v \in cands
                    /\ \A i \in cands : pres[j].v <= i
            /\ pres[j].ok => bs[pres[j].v].kind = pcall.kind

\* C23: a dynasty is a shared reference: two houses whose blocks name the
\* same parent dynasty hold the same dynasty object as their parent; the
\* dynasty is built on the first reference from a house and reused after.
C23_DynastyShared ==
  /\ \A a, b \in 1..Len(dynObjs) :
       (/\ dynObjs[a].house /\ dynObjs[b].house
        /\ dynObjs[a].parent # NoValue /\ dynObjs[b].parent # NoValue
        /\ doc.houses[dynObjs[a].dynid].dynasty
             = doc.houses[dynObjs[b].dynid].dynasty)
         => dynObjs[a].parent = dynObjs[b].parent
  /\ \A a, b \in 1..Len(dynObjs) :
       (/\ ~dynObjs[a].house /\ ~dynObjs[b].house
        /\ dynObjs[a].dynid = dynObjs[b].dynid)
         => a = b

\* C24: a title's history keeps every dated entry of its history block: the
\* resolved history has as many entries as the block has dated entries,
\* also when two entries carry the same date, and every entry of the block
\* is found in it with its own event kind.
C24_HistoryComplete ==
  \A h \in 1..Len(titleObjs) :
    LET o == titleObjs[h]
        hist == doc.titles[o.titleid].history
    IN (o.done /\ ~IsBaronyKey(o.key))
         => /\ Cardinality(DOMAIN o.history) = Len(hist)
            /\ \A j \in 1..Len(hist) :
                 /\ Has(o.history, hist[j].date)
                 /\ o.history[hist[j].date].type
                      = IF hist[j].type = "plain" THEN "gained" ELSE hist[j].type

\* the characters a character block lists as its family
FamilyOf(c) ==
  SeqToSet(doc.chars[c].spouse) \union SeqToSet(doc.chars[c].former)
    \union SeqToSet(doc.chars[c].child)

\* the house with this id has been populated: its leaders are resolved
Populated(house) ==
  \E h \in 1..Len(dynObjs) :
    dynObjs[h].house /\ dynObjs[h].dynid = house /\ dynObjs[h].done

\* C25: when the house of a character C is populated, every family member
\* of C that gets a full character object in this run is already in the
\* character registry: once the house of a character under resolution is
\* populated, no family member of that character is registered any more.
C25_FamilyBeforeHouse ==
  [][\A m \in DOMAIN knownChars' \ DOMAIN knownChars :
       \A c \in DOMAIN knownChars :
         (m \in FamilyOf(c) /\ doc.chars[c].house # "")
           => ~Populated(doc.chars[c].house)]_vars

\* the rank label of a key's prefix
RankLabel(key) ==
  IF SubSeq(key, 1, 2) = <<"d", "_">> THEN "Duchy of "
  ELSE IF SubSeq(key, 1, 2) = <<"k", "_">> THEN "Kingdom of "
  ELSE "Empire of "

\* C26: a title's rank label and its treatment as a barony are determined
\* by the prefix of its key: a resolved title whose key starts with 'd_',
\* 'k_' or 'e_' is labelled with that rank (unless it has an article), gets
\* its page and has its de jure liege read, also when 'b_' or 'c_' occurs
\* later inside the key.
C26_RankByPrefix ==
  \A h \in 1..Len(titleObjs) :
    LET o == titleObjs[h]
        t == doc.titles[o.titleid]
    IN (o.done /\ SubSeq(o.key, 1, 2) \in {<<"d", "_">>, <<"k", "_">>, <<"e", "_">>})
         => /\ ~t.article
                 => getTitleName(o.key, <<>>, <<"X">>) = <<RankLabel(o.key), "X">>
            /\ \E p \in pages : p.kind = "title" /\ p.h = h
            /\ t.dejure # "" => o.de_jure # NoValue

\* `pat in s`
Contains(s, pat) ==
  \E i \in 1..(Len(s) - Len(pat) + 1) : SubSeq(s, i, i + Len(pat) - 1) = pat

\* C27: no step of gameStringToRead's replacement chain creates an
\* occurrence of a marker that an earlier step stripped, and after the whole
\* chain has run the string (before underscores are turned into spaces)
\* contains none of the stripped markers, for every input.
C27_NoMarkerLeft ==
  (pcall.fn = "gameStringToRead" /\ Len(pres) >= 1)
    => LET stripped == DeleteAll(pcall.string, Len(Deleted))
       IN /\ pres[1].v = Capitalize(Lower(Replace(stripped, <<"_">>, <<" ">>)))
          /\ \A n \in 1..Len(Deleted) : \A m \in 1..(n - 1) :
               ~Contains(DeleteAll(pcall.string, n - 1), Deleted[m])
                 => ~Contains(DeleteAll(pcall.string, n), Deleted[m])
          /\ \A n \in 1..Len(Deleted) : ~Contains(stripped, Deleted[n])

\* the frames of the character resolutions in progress
InProgress == {i \in 1..Len(stack) : stack[i].fn = "gChar"}

\* C28: every call that resolves a character receives a budget >= 0; a
\* nested character resolution is started only from a character whose
\* budget is above 0 and receives that budget minus one; at most (initial
\* budget + 1) character resolutions are in progress at the same time.
C28_BudgetBounds ==
  /\ \A i \in 1..Len(stack) :
       stack[i].fn \in {"gLineage", "lChar", "findLinkedChars", "gChar"}
         => stack[i].limit >= 0
  /\ \A i \in InProgress :
       IF \E j \in InProgress : j < i
         THEN LET j == CHOOSE j \in InProgress :
                         j < i /\ \A k \in InProgress : k < i => k <= j
              IN stack[j].limit > 0 /\ stack[i].limit = stack[j].limit - 1
         ELSE stack[i].limit = limit0
  /\ Cardinality(InProgress) <= limit0 + 1

\* three nested character resolutions, the innermost with budget 0
C28_Witness ==
  /\ limit0 >= 2
  /\ Cardinality(InProgress) = limit0 + 1
  /\ Top.fn = "gChar" /\ Top.limit = 0

\* the handles of the entity objects in a list of values, and in one value
SeqObjs(s) == {s[j].h : j \in {k \in 1..Len(s) : IsObj(s[k])}}

ValObjs(v) == IF IsObj(v) THEN {v.h} ELSE {}

\* the character objects the entity of page p refers to: a character's
\* relatives, kills, vassals and memory participants, a title's history
\* holders, a house's or dynasty's historical leaders
PageCharRefs(p) ==
  IF p.kind = "char"
    THEN LET o == charObjs[p.h]
         IN SeqObjs(o.spouses) \union SeqObjs(o.former) \union SeqObjs(o.children)
              \union SeqObjs(o.kills) \union SeqObjs(o.vassals)
              \union UNION {SeqObjs(o.memories[j].participants) :
                              j \in 1..Len(o.memories)}
  ELSE IF p.kind = "title"
    THEN LET o == titleObjs[p.h]
         IN UNION {ValObjs(o.history[d].holder) : d \in DOMAIN o.history}
  ELSE IF p.kind \in {"house", "dynasty"} THEN SeqObjs(dynObjs[p.h].leaders)
  ELSE {}

\* the title objects the entity of page p refers to: a character's titles,
\* a title's lieges and vassals, a faith's religious head
PageTitleRefs(p) ==
  IF p.kind = "char" THEN SeqObjs(charObjs[p.h].titles)
  ELSE IF p.kind = "title"
    THEN LET o == titleObjs[p.h]
         IN ValObjs(o.de_jure) \union ValObjs(o.de_facto) \union SeqObjs(o.vassals)
  ELSE IF p.kind = "faith" THEN ValObjs(faithObjs[p.h].head)
  ELSE {}

\* C29: whenever the page of an entity is rendered, every character and
\* title object the entity refers to has finished populating.
C29_PagesFromFinishedObjects ==
  [][\A p \in pages' \ pages :
       /\ \A h \in PageCharRefs(p)' : charObjs'[h].done
       /\ \A h \in PageTitleRefs(p)' : titleObjs'[h].done]_vars
====
